---- MODULE Spec2Model ----
(***************************************************************************)
(* mgrep: ignore-aware reconciliation of a local tree into a remote store. *)
(*                                                                         *)
(* Strings are sequences of one-character strings, so that startsWith,     *)
(* split and glob matching are computed character by character as the      *)
(* code computes them.  Names are scaled down: ".t" stands for ".txt",     *)
(* "k.t" for keep.txt, "o.t" for other.txt, ".b" for ".bin".  The hidden    *)
(* directory ".h" holds a second k.t.                                      *)
(***************************************************************************)
EXTENDS Naturals, Sequences, FiniteSets

\* ------------------------------------------------------------------------
\* Strings and POSIX paths (node:path)
\* ------------------------------------------------------------------------

Sep == "/"

StartsWith(s, p) == Len(p) <= Len(s) /\ SubSeq(s, 1, Len(p)) = p

EndsWith(s, p) == Len(p) <= Len(s) /\ SubSeq(s, Len(s) - Len(p) + 1, Len(s)) = p

\* s.split("/")
RECURSIVE Split(_)
Split(s) ==
    IF \A i \in 1..Len(s) : s[i] # Sep
    THEN <<s>>
    ELSE LET i == CHOOSE i \in 1..Len(s) :
                      s[i] = Sep /\ \A j \in 1..(i - 1) : s[j] # Sep
         IN  <<SubSeq(s, 1, i - 1)>> \o Split(SubSeq(s, i + 1, Len(s)))

\* parts.join("/")
RECURSIVE Join(_)
Join(parts) ==
    IF parts = <<>> THEN <<>>
    ELSE IF Len(parts) = 1 THEN parts[1]
    ELSE parts[1] \o <<Sep>> \o Join(Tail(parts))

\* The segment normalisation of path.resolve: "" and "." are dropped, ".."
\* removes the segment before it.
RECURSIVE NormalizeParts(_, _)
NormalizeParts(parts, acc) ==
    IF parts = <<>> THEN acc
    ELSE LET p == Head(parts) IN
         IF p = <<>> \/ p = <<".">>
         THEN NormalizeParts(Tail(parts), acc)
         ELSE IF p = <<".", ".">>
         THEN NormalizeParts(Tail(parts),
                             IF acc = <<>> THEN acc ELSE SubSeq(acc, 1, Len(acc) - 1))
         ELSE NormalizeParts(Tail(parts), Append(acc, p))

\* path.resolve(p) for an absolute path p
Resolve(p) == <<Sep>> \o Join(NormalizeParts(Split(p), <<>>))

\* path.dirname(p) for a normalised absolute path p
Dirname(p) ==
    LET idx == CHOOSE i \in 1..Len(p) :
                   p[i] = Sep /\ \A j \in (i + 1)..Len(p) : p[j] # Sep
    IN  IF idx = 1 THEN <<Sep>> ELSE SubSeq(p, 1, idx - 1)

RECURSIVE CommonLen(_, _)
CommonLen(a, b) ==
    IF a = <<>> \/ b = <<>> \/ Head(a) # Head(b) THEN 0
    ELSE 1 + CommonLen(Tail(a), Tail(b))

\* path.relative(from, to): ".." for every segment of from below the common
\* ancestor, then the segments of to below it; "" when the paths are equal.
Relative(from, to) ==
    LET fp == NormalizeParts(Split(from), <<>>)
        tp == NormalizeParts(Split(to), <<>>)
        c  == CommonLen(fp, tp)
    IN  Join([i \in 1..(Len(fp) - c) |-> <<".", ".">>] \o SubSeq(tp, c + 1, Len(tp)))

\* isSubpath as a bare prefix test, without the separator
isSubpathNoSep(parent, child) == StartsWith(Resolve(child), Resolve(parent))

\* utils.ts isSubpath: string prefix test against the parent plus separator
isSubpath(parent, child) ==
    LET parentPath == Resolve(parent)
        childPath  == Resolve(child)
        parentWithSep == IF EndsWith(parentPath, <<Sep>>)
                         THEN parentPath
                         ELSE parentPath \o <<Sep>>
    IN  StartsWith(childPath, parentWithSep)

\* ------------------------------------------------------------------------
\* The directory tree under the sync root
\* ------------------------------------------------------------------------

Root   == <<"/", "r">>
SubDir == <<"/", "r", "/", "s">>
HidDir == <<"/", "r", "/", ".", "h">>

FileA == <<"/", "r", "/", "a", ".", "t">>
FileK == <<"/", "r", "/", "s", "/", "k", ".", "t">>
FileO == <<"/", "r", "/", "s", "/", "o", ".", "t">>
FileH == <<"/", "r", "/", ".", "h", "/", "k", ".", "t">>
FileB == <<"/", "r", "/", "s", "/", "k", ".", "b">>
FileP == <<"/", "r", "/", "s", "/", "p", ".", "i">>
\* The path of a directory that has just been removed
GoneDir == <<"/", "r", "/", "d">>

\* Directories that exist on disk (fs.statSync(p).isDirectory())
Directories == {Root, SubDir, HidDir}

IsDirectory(p) == p \in Directories

\* Names of the two per-directory ignore files (file.ts 124, 130)
GitIgnoreName   == <<".", "g">>
MgrepIgnoreName == <<".", "m">>

\* A data file that does not exist (readFile throws ENOENT), and an ignore
\* file that does not exist (fs.existsSync is false)
NoFile   == <<"ENOENT">>
NoIgnore == << <<"ENOENT">> >>

\* ------------------------------------------------------------------------
\* Ignore rule sets (the "ignore" package as used by file.ts)
\* ------------------------------------------------------------------------

\* One pattern line: a leading "!" negates, a trailing "/" restricts the
\* pattern to directories.  Pattern bodies are slash-free globs.
ParseRule(line) ==
    LET negative == line # <<>> /\ Head(line) = "!"
        rest     == IF negative THEN Tail(line) ELSE line
        dirOnly  == rest # <<>> /\ rest[Len(rest)] = Sep
    IN  [negative |-> negative,
         dirOnly  |-> dirOnly,
         body     |-> IF dirOnly THEN SubSeq(rest, 1, Len(rest) - 1) ELSE rest]

\* ignore().add(content): blank lines and "#" comments are skipped
RECURSIVE AddPatterns(_, _)
AddPatterns(rules, lines) ==
    IF lines = <<>> THEN rules
    ELSE LET l == Head(lines) IN
         IF l = <<>> \/ Head(l) = "#"
         THEN AddPatterns(rules, Tail(lines))
         ELSE AddPatterns(Append(rules, ParseRule(l)), Tail(lines))

\* Glob match of one path segment: "*" matches any run of characters of the
\* segment (a segment holds no "/", so "*" never crosses one).
RECURSIVE GlobMatch(_, _)
GlobMatch(pat, seg) ==
    IF pat = <<>> THEN seg = <<>>
    ELSE IF Head(pat) = "*"
    THEN GlobMatch(Tail(pat), seg) \/ (seg # <<>> /\ GlobMatch(pat, Tail(seg)))
    ELSE seg # <<>> /\ Head(seg) = Head(pat) /\ GlobMatch(Tail(pat), Tail(seg))

\* rule.regex.test(path): a slash-free pattern matches the last segment of
\* the path; a directory-only pattern needs the path to end in "/".
RuleMatches(rule, path) ==
    LET isDir == EndsWith(path, <<Sep>>)
        bare  == IF isDir THEN SubSeq(path, 1, Len(path) - 1) ELSE path
        segs  == Split(bare)
    IN  /\ GlobMatch(rule.body, segs[Len(segs)])
        /\ rule.dirOnly => isDir

\* _testOne: the rules are scanned in order and the last match wins.  With
\* checkUnignored FALSE a negation is only consulted once a rule has ignored.
RECURSIVE TestOne(_, _, _, _)
TestOne(rules, path, checkUnignored, acc) ==
    IF rules = <<>> THEN acc
    ELSE LET rule == Head(rules)
             skip == \/ (acc.unignored = rule.negative /\ acc.ignored # acc.unignored)
                     \/ (rule.negative /\ ~acc.ignored /\ ~acc.unignored /\ ~checkUnignored)
         IN  IF ~skip /\ RuleMatches(rule, path)
             THEN TestOne(Tail(rules), path, checkUnignored,
                          [ignored |-> ~rule.negative, unignored |-> rule.negative])
             ELSE TestOne(Tail(rules), path, checkUnignored, acc)

Silent == [ignored |-> FALSE, unignored |-> FALSE]

\* _t: the parent directories of the path are tested first, outermost first;
\* a path below an ignored directory is ignored and cannot be re-included.
RECURSIVE TestUpTo(_, _, _, _, _)
TestUpTo(rules, segs, k, lastIsDir, checkUnignored) ==
    LET prefix == Join(SubSeq(segs, 1, k))
        path   == IF k < Len(segs) \/ lastIsDir THEN prefix \o <<Sep>> ELSE prefix
    IN  IF k = 1
        THEN TestOne(rules, path, checkUnignored, Silent)
        ELSE LET parent == TestUpTo(rules, segs, k - 1, lastIsDir, checkUnignored)
             IN  IF parent.ignored THEN parent
                 ELSE TestOne(rules, path, checkUnignored, Silent)

\* filter.test answered by filter.ignores: an un-ignore is never reported
FilterTestAsIgnores(rules, path) ==
    LET isDir == EndsWith(path, <<Sep>>)
        bare  == IF isDir THEN SubSeq(path, 1, Len(path) - 1) ELSE path
        segs  == Split(bare)
    IN  [ignored   |-> TestUpTo(rules, segs, Len(segs), isDir, FALSE).ignored,
         unignored |-> FALSE]

\* filter.test(pathToCheck) -> {ignored, unignored}
FilterTest(rules, path) ==
    LET isDir == EndsWith(path, <<Sep>>)
        bare  == IF isDir THEN SubSeq(path, 1, Len(path) - 1) ELSE path
        segs  == Split(bare)
    IN  TestUpTo(rules, segs, Len(segs), isDir, TRUE)

\* filter.ignores(pathToCheck) -> boolean
FilterIgnores(rules, path) ==
    LET isDir == EndsWith(path, <<Sep>>)
        bare  == IF isDir THEN SubSeq(path, 1, Len(path) - 1) ELSE path
        segs  == Split(bare)
    IN  TestUpTo(rules, segs, Len(segs), isDir, FALSE).ignored

\* file.ts DEFAULT_IGNORE_PATTERNS, scaled to one extension ("*.bin")
DEFAULT_IGNORE_PATTERNS == << <<"*", ".", "b">> >>

\* NodeFileSystem constructor: customIgnoreFilter
customIgnoreFilter == AddPatterns(<<>>, DEFAULT_IGNORE_PATTERNS)

\* getDirectoryIgnoreFilter on a cache miss: .gitignore first, .mgrepignore
\* second, into one rule set.  ign maps <<dir, name>> to the lines of the file.
LoadDirectoryIgnoreFilterMgrepFirst(ign, dir) ==
    LET at(sl) == IF sl \in DOMAIN ign THEN ign[sl] ELSE NoIgnore
        g  == at(<<dir, GitIgnoreName>>)
        m  == at(<<dir, MgrepIgnoreName>>)
        r1 == IF m # NoIgnore THEN AddPatterns(<<>>, m) ELSE <<>>
    IN  IF g # NoIgnore THEN AddPatterns(r1, g) ELSE r1

LoadDirectoryIgnoreFilter(ign, dir) ==
    LET at(sl) == IF sl \in DOMAIN ign THEN ign[sl] ELSE NoIgnore
        g  == at(<<dir, GitIgnoreName>>)
        m  == at(<<dir, MgrepIgnoreName>>)
        r1 == IF g # NoIgnore THEN AddPatterns(<<>>, g) ELSE <<>>
    IN  IF m # NoIgnore THEN AddPatterns(r1, m) ELSE r1

\* getDirectoryIgnoreFilter: the cached rule set when the directory is
\* cached; otherwise the rule set is loaded and stored in the cache
CacheWith(cache, ign, dir) ==
    IF dir \in DOMAIN cache THEN cache
    ELSE [d \in (DOMAIN cache) \cup {dir} |->
             IF d = dir THEN LoadDirectoryIgnoreFilter(ign, dir) ELSE cache[d]]

getDirectoryIgnoreFilter(cache, ign, dir) == CacheWith(cache, ign, dir)[dir]

\* isHiddenFile looking at the file name only
isHiddenFileName(filePath, root) ==
    LET parts == Split(Relative(root, filePath))
    IN  StartsWith(parts[Len(parts)], <<".">>)

\* isHiddenFile: some segment of the root-relative path starts with "."
isHiddenFile(filePath, root) ==
    LET parts == Split(Relative(root, filePath))
    IN  \E i \in 1..Len(parts) :
            /\ StartsWith(parts[i], <<".">>)
            /\ parts[i] # <<".">>
            /\ parts[i] # <<".", ".">>

\* The hierarchical check without the walk: only the containing directory
\* is asked
HierarchicalCheckNoWalk(cache, ign, filePath, isDirectory, currentDir, absoluteRoot) ==
    LET relativeToCurrent == Relative(currentDir, filePath)
        pathToCheck == IF isDirectory THEN relativeToCurrent \o <<Sep>>
                       ELSE relativeToCurrent
        consulted == relativeToCurrent # <<>>
        cached == IF consulted THEN CacheWith(cache, ign, currentDir) ELSE cache
    IN  [ignored |-> consulted /\ FilterTest(cached[currentDir], pathToCheck).ignored,
         cache   |-> cached]

\* The while loop of isIgnored (file.ts 166-201): from currentDir up to the
\* root, the first level whose filter ignores or un-ignores decides.  The
\* result carries the cache as the lookups leave it.
RECURSIVE HierarchicalCheck(_, _, _, _, _, _)
HierarchicalCheck(cache, ign, filePath, isDirectory, currentDir, absoluteRoot) ==
    LET relativeToCurrent == Relative(currentDir, filePath)
        pathToCheck == IF isDirectory THEN relativeToCurrent \o <<Sep>>
                       ELSE relativeToCurrent
        consulted == relativeToCurrent # <<>>
        cached == IF consulted THEN CacheWith(cache, ign, currentDir) ELSE cache
        result == IF consulted
                  THEN FilterTest(getDirectoryIgnoreFilter(cache, ign, currentDir),
                                  pathToCheck)
                  ELSE Silent
        parent == Dirname(currentDir)
    IN  IF result.ignored THEN [ignored |-> TRUE, cache |-> cached]
        ELSE IF result.unignored THEN [ignored |-> FALSE, cache |-> cached]
        ELSE IF Resolve(currentDir) = absoluteRoot
        THEN [ignored |-> FALSE, cache |-> cached]
        ELSE IF parent = currentDir THEN [ignored |-> FALSE, cache |-> cached]
        ELSE HierarchicalCheck(cached, ign, filePath, isDirectory, parent, absoluteRoot)

\* isIgnored without the test of the global patterns (file.ts 161-163)
isIgnoredResultNoCustom(cache, ign, filePath, root) ==
    LET isDirectory == IsDirectory(filePath)
    IN  IF isHiddenFile(filePath, root) THEN [ignored |-> TRUE, cache |-> cache]
        ELSE HierarchicalCheck(cache, ign, filePath, isDirectory,
                               IF isDirectory THEN filePath ELSE Dirname(filePath),
                               Resolve(root))

\* NodeFileSystem.isIgnored(filePath, root): the verdict and the cache after it
isIgnoredResult(cache, ign, filePath, root) ==
    LET relativeToRoot == Relative(root, filePath)
        isDirectory == IsDirectory(filePath)
        pathToCheckRoot == IF isDirectory THEN relativeToRoot \o <<Sep>>
                           ELSE relativeToRoot
    IN  IF isHiddenFile(filePath, root) THEN [ignored |-> TRUE, cache |-> cache]
        ELSE IF FilterIgnores(customIgnoreFilter, pathToCheckRoot)
        THEN [ignored |-> TRUE, cache |-> cache]
        ELSE HierarchicalCheck(cache, ign, filePath, isDirectory,
                               IF isDirectory THEN filePath ELSE Dirname(filePath),
                               Resolve(root))

\* The verdict of NodeFileSystem.isIgnored(filePath, root)
isIgnored(cache, ign, filePath, root) == isIgnoredResult(cache, ign, filePath, root).ignored

\* ------------------------------------------------------------------------
\* Bounds and input sets
\* ------------------------------------------------------------------------

\* Changes the environment makes to the tree and the store between passes
MaxEdits == 2

\* Store calls that fail in one run of the model
MaxFails == 2

\* Data files that may exist under the root
LocalFiles == {FileK, FileO, FileH}

\* File contents; the first is the empty file
Empty    == <<>>
Contents == {Empty, <<"x">>, <<"y">>}

\* Pattern lines and the ignore-file contents written during a run
StarT == <<"*", ".", "t">>
NotK  == <<"!", "k", ".", "t">>
\* A pattern that ignores the directory s
DirS  == <<"s", "/">>
IgnoreContents == {<<StarT>>, <<NotK>>, <<StarT, NotK>>}

IgnoreDirs  == {Root, SubDir}
IgnoreSlots == IgnoreDirs \X {GitIgnoreName, MgrepIgnoreName}

\* External identifiers another client may have left in the store: the root
\* itself, a sibling that shares the root as a string prefix, and a path
\* that starts with the root textually but resolves outside it.
RootId     == Root
SiblingId  == <<"/", "r", "x", "/", "k", ".", "t">>
EscapingId == <<"/", "r", "/", ".", ".", "/", "o", "/", "k", ".", "t">>
ForeignIds == {RootId, SiblingId, EscapingId}

\* SHA-256 of a buffer, as an injective tag of the bytes
computeBufferHash(buf) == <<"sha256">> \o buf

\* metadata.hash missing, and Map.get of a missing key
Undefined == <<>>

\* istextorbinary isText(filePath), called with the name only: decided by
\* the extension
isText(filePath) == EndsWith(filePath, <<".", "t">>)

\* p-limit ceiling of initialSync
concurrency == 100

\* ------------------------------------------------------------------------
\* State
\* ------------------------------------------------------------------------

VARIABLES
    files,          \* LocalFiles -> content or NoFile
    ignoreFile,     \* IgnoreSlots -> lines or NoIgnore
    isGit,          \* the root is a git work tree
    tracked,        \* files in the git index
    remote,         \* the store: external id -> [hash, content]
    edits,          \* environment changes made so far
    fails,          \* store calls that have failed so far
    phase,          \* "idle" | "running"
    dryRun,
    storeHashes,    \* snapshot: external id -> hash
    repoFiles,
    filesToDelete,
    task,           \* item -> the await it is suspended at, or "done"
    buffer,         \* item -> the buffer uploadFile read
    total,
    processed,
    uploaded,
    deleted,
    upCalls,        \* store.uploadFile calls of the pass: {<<id, via>>}
    delCalls,       \* store.deleteFile calls of the pass: id -> count
    uploadedIds,    \* files counted in uploaded
    deletedIds,     \* ids counted in deleted: id -> count
    failedCalls,    \* calls of the pass that threw: {<<id, call>>}
    result,         \* how the last initialSync call settled, and its value
    progress,       \* onProgress: number of calls in the pass, the last info
    quotaAt,        \* the store.uploadFile calls made when a quota rejection came
    prev,           \* summary of the pass before this one, if nothing changed since
    changed,        \* the environment changed since the last pass returned
    limitQueue,     \* p-limit: <<upload tasks, delete tasks>> waiting, uploads first
    activeCount,    \* p-limit: <<upload tasks, delete tasks>> running
    ticks,          \* p-limit: start attempts scheduled by limit() and not yet run
    ignoreCache,    \* NodeFileSystem.ignoreCache: directory -> rule set
    query,          \* the path of the last isIgnored call
    verdict,        \* what that call returned
    pc,             \* startWatch: the await it is suspended at, or how it ended
    watchDry,       \* options.dryRun of startWatch
    exitCode,       \* process.exitCode
    refreshInterval,\* the token refresh timer is set
    watchers,       \* fs.watch subscriptions made
    notified,       \* notifications fs.watch has queued for the callback
    handled,        \* invocations of the fs.watch callback
    live,           \* uploadFile and deleteFile calls of the callback in flight
    liveCalls,      \* store calls made for the callback: {<<id, call>>}
    liveLogged,     \* rejections the callback's catch has logged: {<<id, call>>}
    mutex,          \* TestStore.mutex: the lock promise made last (0: Promise.resolve())
    unlocked,       \* TestStore: the lock promises that are resolved
    req,            \* TestStore: request -> the await it is suspended at, its locks, its db
    backing,        \* TestStore: the backing file: store name and external ids
    pending,        \* the StoreFile records store.listFiles has yet to yield
    seen,           \* the records it has yielded
    snapshotMap,    \* the map byExternalId that listStoreFileHashes is building
    verbose,        \* startWatcher: the verbose option
    pendingCounts,  \* startWatcher: outcomes counted since the last flush
    flushTimer,     \* startWatcher: NoTimer, or the time the pending timer is due
    timers,         \* the due times of the setTimeout calls not yet run
    clock,          \* milliseconds since startWatcher was called
    summaries,      \* the counts of the "Synced changes" lines printed, in order
    recorded,       \* the outcomes handed to record, per event, since the start
    firstAt         \* the time of the first outcome since the last flush, or NoTimer

syncVars == <<files, ignoreFile, isGit, tracked, remote, edits, fails, phase, dryRun,
              storeHashes, repoFiles, filesToDelete, task, buffer, total, processed,
              uploaded, deleted, upCalls, delCalls, uploadedIds, deletedIds,
              failedCalls, result, progress, quotaAt, prev, changed>>

limitVars == <<limitQueue, activeCount, ticks>>

queryVars == <<ignoreCache, query, verdict>>

watchVars == <<pc, watchDry, exitCode, refreshInterval, watchers, notified, handled,
               live, liveCalls, liveLogged>>

storeVars == <<mutex, unlocked, req, backing, pending, seen, snapshotMap>>

summaryVars == <<verbose, pendingCounts, flushTimer, timers, clock, summaries, recorded,
                 firstAt>>

vars == <<syncVars, limitVars, queryVars, watchVars, storeVars, summaryVars>>

\* ------------------------------------------------------------------------
\* Walker (file.ts getFiles) and remote snapshot (utils.ts)
\* ------------------------------------------------------------------------

\* a set that keeps the value of a key already present
MapSetOnce(m, k, v) == [x \in (DOMAIN m) \cup {k} |-> IF x \in DOMAIN m THEN m[x] ELSE v]

\* Map.prototype.set
MapSet(m, k, v) == [x \in (DOMAIN m) \cup {k} |-> IF x = k THEN v ELSE m[x]]

BagAdd(b, k) == MapSet(b, k, IF k \in DOMAIN b THEN b[k] + 1 ELSE 1)

RECURSIVE SetToSeq(_)
SetToSeq(S) ==
    IF S = {} THEN <<>>
    ELSE LET x == CHOOSE x \in S : TRUE IN <<x>> \o SetToSeq(S \ {x})

ExistingFiles(fs) == {f \in DOMAIN fs : fs[f] # NoFile}

\* fs.readdirSync(dir): the data files and the directories directly in dir
\* (the ignore files themselves are dot-files and are left out)
FileEntries(fs, dir) == {f \in ExistingFiles(fs) : Dirname(f) = dir}
DirEntries(dir)      == {d \in Directories : d # dir /\ Dirname(d) = dir}

\* A walk that descends into every directory and tests the files only
getAllFilesRecursiveNoPrune(fs, ign, dir, root) ==
    {f \in ExistingFiles(fs) :
        /\ StartsWith(f, dir \o <<Sep>>)
        /\ ~isHiddenFile(f, root)
        /\ ~isIgnored(<<>>, ign, f, root)}

\* getAllFilesRecursive: hidden and ignored entries are skipped, directories
\* that are kept are descended into, regular files are yielded.
RECURSIVE getAllFilesRecursive(_, _, _, _)
getAllFilesRecursive(fs, ign, dir, root) ==
    LET keep(e) == ~isHiddenFile(e, root) /\ ~isIgnored(<<>>, ign, e, root)
    IN  {f \in FileEntries(fs, dir) : keep(f)}
        \cup UNION {getAllFilesRecursive(fs, ign, d, root) :
                        d \in {e \in DirEntries(dir) : keep(e)}}

\* What git's --exclude-standard leaves out of the untracked files: the
\* .gitignore files of the tree, closest directory first
GitExcluded(ign, f) ==
    LET gitOnly == [sl \in DOMAIN ign |->
                        IF sl[2] = GitIgnoreName THEN ign[sl] ELSE NoIgnore]
    IN  HierarchicalCheck(<<>>, gitOnly, f, FALSE, Dirname(f), Resolve(Root)).ignored

\* getGitFiles: the files of the index, on disk or not, and the untracked
\* files that are not excluded; each name is joined to the root unchecked
getGitFiles(fs, ign, index) ==
    index \cup {f \in ExistingFiles(fs) : ~GitExcluded(ign, f)}

\* getFiles
getFiles(fs, ign, git, index, root) ==
    IF git THEN getGitFiles(fs, ign, index)
    ELSE getAllFilesRecursive(fs, ign, root, root)

\* store.listFiles: one StoreFile per record
listFiles(store) ==
    LET ids == SetToSeq(DOMAIN store)
    IN  [i \in 1..Len(ids) |->
            [external_id |-> ids[i], metadata |-> [hash |-> store[ids[i]].hash]]]

\* listStoreFileHashes: records without an external id are skipped, a later
\* record of the same id overwrites an earlier one
RECURSIVE listStoreFileHashes(_, _)
listStoreFileHashes(listing, byExternalId) ==
    IF listing = <<>> THEN byExternalId
    ELSE LET file == Head(listing) IN
         IF file.external_id = Undefined
         THEN listStoreFileHashes(Tail(listing), byExternalId)
         ELSE listStoreFileHashes(Tail(listing),
                                  MapSet(byExternalId, file.external_id,
                                         file.metadata.hash))

\* storeHashes.get(filePath)
MapGet(m, k) == IF k \in DOMAIN m THEN m[k] ELSE Undefined

\* initialSync 154-156
FilesToDelete(hashes, repoFileSet, repoRoot) ==
    {filePath \in DOMAIN hashes :
        isSubpath(repoRoot, filePath) /\ filePath \notin repoFileSet}

\* shouldUpload without the hash comparison, in its two directions
shouldUploadAlways(existingHash, hash) == TRUE

shouldUploadIfMissing(existingHash, hash) == existingHash = Undefined

\* initialSync 174
shouldUpload(existingHash, hash) == existingHash = Undefined \/ existingHash # hash

\* The upload branch without the dry-run test
uploadBranchNoDry(dry, should) == IF should THEN "uploadFile" ELSE "skip"

\* initialSync 175-188: a dry run counts the file, a real run hands it to
\* uploadFile, a file whose hash matches is left alone
uploadBranch(dry, should) ==
    IF dry /\ should THEN "count"
    ELSE IF should THEN "uploadFile"
    ELSE "skip"

\* initialSync 198-202: a dry run logs the delete, a real run issues it
deleteBranch(dry) == IF dry THEN "log" ELSE "store.deleteFile"

\* TestStore.uploadFile: upsert keyed by the external id
StoreUploadFile(store, externalId, hash, content) ==
    MapSet(store, externalId, [hash |-> hash, content |-> content])

\* store.deleteFile: the record of the external id is removed
StoreDeleteFile(store, externalId) ==
    [x \in (DOMAIN store) \ {externalId} |-> store[x]]

\* MixedbreadStore.listFiles asks for pages of `limit` records (100 in the
\* code, scaled to the stores of the model)
PageLimit == 2

\* The requests of one listing: the do-while loop always asks for the first
\* page, and for another one while has_more
NumPages(listing) ==
    IF Len(listing) = 0 THEN 1 ELSE (Len(listing) + PageLimit - 1) \div PageLimit

\* listStoreFileHashes that keeps what it has when a page request throws
SnapshotPartial(listing, failPage) ==
    [rejected |-> FALSE,
     hashes   |-> listStoreFileHashes(
                      SubSeq(listing, 1,
                             IF failPage = 0 THEN Len(listing)
                             ELSE (failPage - 1) * PageLimit), <<>>)]

\* await listStoreFileHashes (utils.ts 147, 50-64): the request of page
\* failPage throws (0: none does); the for-await loop has no catch, so the
\* map built from the pages before is lost with the rejection
Snapshot(listing, failPage) ==
    IF failPage = 0
    THEN [rejected |-> FALSE, hashes |-> listStoreFileHashes(listing, <<>>)]
    ELSE [rejected |-> TRUE, hashes |-> <<>>]

\* store.uploadFile of fs.createReadStream(filePath) (utils.ts 121-125): the
\* stream of a file that is gone fails, and the upload with it
StreamOutcome(fs, filePath, outcome) == IF fs[filePath] = NoFile THEN "error" ELSE outcome

\* total without the deletes
TotalNoDeletes(rf, td) == Cardinality(rf)

\* utils.ts 158: total = repoFiles.length + filesToDelete.length
Total(rf, td) == Cardinality(rf) + Cardinality(td)

\* A task whose throwing call is not caught
AfterThrowUncaught(call) == "rejected"

\* The try/catch around each task (utils.ts 169-192, 197-209): a call that
\* throws ends the task, which resolves
AfterThrow(call) == "done"

\* Promise.all that resolves with the first task that has settled
PromiseFirst(tasks) ==
    IF \E p \in DOMAIN tasks : tasks[p] = "rejected" THEN "rejected"
    ELSE IF tasks = <<>> \/ \E p \in DOMAIN tasks : tasks[p] = "done" THEN "resolved"
    ELSE "pending"

\* await Promise.all (utils.ts 166): rejected as soon as one task rejects,
\* resolved when every task has resolved
PromiseAll(tasks) ==
    IF \E p \in DOMAIN tasks : tasks[p] = "rejected" THEN "rejected"
    ELSE IF \A p \in DOMAIN tasks : tasks[p] = "done" THEN "resolved"
    ELSE "pending"

\* The argument of onProgress (utils.ts 189, 191, 205, 208)
Info(p, u, d, t, filePath) ==
    [processed |-> p, uploaded |-> u, deleted |-> d, total |-> t, filePath |-> filePath]

NoProgress == [calls |-> 0, info |-> Info(0, 0, 0, 0, <<>>)]

\* onProgress?.(info)
onProgress(pr, info) == [calls |-> pr.calls + 1, info |-> info]

\* The value initialSync returns (utils.ts 213)
SyncResult(p, u, d, t) == [processed |-> p, uploaded |-> u, deleted |-> d, total |-> t]

NoResult == [kind |-> "none", error |-> "", value |-> SyncResult(0, 0, 0, 0)]

Resolved(value) == [kind |-> "resolved", error |-> "", value |-> value]

Rejected(error) == [kind |-> "rejected", error |-> error, value |-> SyncResult(0, 0, 0, 0)]

NoQuota == [hit |-> FALSE, upCalls |-> {}]

\* ------------------------------------------------------------------------
\* Initial state and environment
\* ------------------------------------------------------------------------

\* No limiter in use, no lookup made
NoQuery == <<>>

LimitIdle ==
    /\ limitQueue = <<0, 0>>
    /\ activeCount = <<0, 0>>
    /\ ticks = 0

QueryIdle ==
    /\ ignoreCache = <<>>
    /\ query = NoQuery
    /\ verdict = FALSE

\* startWatch has not been called
WatchIdle ==
    /\ pc = "none"
    /\ watchDry = FALSE
    /\ exitCode = 0
    /\ refreshInterval = FALSE
    /\ watchers = 0
    /\ notified = {}
    /\ handled = 0
    /\ live = {}
    /\ liveCalls = {}
    /\ liveLogged = {}

\* No TestStore request and no listing
StoreIdle ==
    /\ mutex = 0
    /\ unlocked = {0}
    /\ req = <<>>
    /\ backing = [name |-> "", files |-> {}]
    /\ pending = <<>>
    /\ seen = <<>>
    /\ snapshotMap = <<>>

\* The events record counts, and no timer
Events   == {"add", "change", "unlink"}
NoCounts == [e \in Events |-> 0]
NoTimer  == [set |-> FALSE, due |-> 0]
TimerAt(t) == [set |-> TRUE, due |-> t]

\* startWatcher has not recorded anything
SummaryIdle ==
    /\ verbose = FALSE
    /\ pendingCounts = NoCounts
    /\ flushTimer = NoTimer
    /\ timers = {}
    /\ clock = 0
    /\ summaries = <<>>
    /\ recorded = NoCounts
    /\ firstAt = NoTimer

NoPrev == [kind |-> "none", failed |-> FALSE, uploaded |-> 0, deleted |-> 0]

envVars == <<files, ignoreFile, isGit, tracked, remote, edits>>

\* The locals of a pass that has not started
PassReset ==
    /\ dryRun = FALSE
    /\ storeHashes = <<>>
    /\ repoFiles = {}
    /\ filesToDelete = {}
    /\ task = <<>>
    /\ buffer = <<>>
    /\ total = 0
    /\ processed = 0
    /\ uploaded = 0
    /\ deleted = 0
    /\ upCalls = {}
    /\ delCalls = <<>>
    /\ uploadedIds = {}
    /\ deletedIds = <<>>
    /\ failedCalls = {}
    /\ result = NoResult
    /\ progress = NoProgress
    /\ quotaAt = NoQuota
    /\ prev = NoPrev

\* A tree with two text files in a subdirectory, no ignore files, an empty
\* store, no pass run yet
Init ==
    /\ files = [f \in LocalFiles |-> IF f = FileH THEN NoFile ELSE <<"x">>]
    /\ ignoreFile = [sl \in IgnoreSlots |-> NoIgnore]
    /\ isGit = FALSE
    /\ tracked = {}
    /\ remote = <<>>
    /\ edits = 0
    /\ fails = 0
    /\ phase = "idle"
    /\ changed = TRUE
    /\ PassReset
    /\ LimitIdle
    /\ QueryIdle
    /\ WatchIdle
    /\ StoreIdle
    /\ SummaryIdle

\* The locals of the pass before are gone
PassForgotten ==
    /\ dryRun' = FALSE
    /\ storeHashes' = <<>>
    /\ repoFiles' = {}
    /\ filesToDelete' = {}
    /\ task' = <<>>
    /\ buffer' = <<>>
    /\ total' = 0
    /\ processed' = 0
    /\ uploaded' = 0
    /\ deleted' = 0
    /\ upCalls' = {}
    /\ delCalls' = <<>>
    /\ uploadedIds' = {}
    /\ deletedIds' = <<>>
    /\ failedCalls' = {}
    /\ result' = NoResult
    /\ progress' = NoProgress
    /\ quotaAt' = NoQuota
    /\ prev' = NoPrev

\* An environment change happens between two runs of the command line: the
\* process of the pass before has exited and its locals are gone.
Edited ==
    /\ phase \in {"idle", "rejected"}
    /\ edits < MaxEdits
    /\ edits' = edits + 1
    /\ changed' = TRUE
    /\ phase' = "idle"
    /\ PassForgotten
    /\ ignoreCache' = <<>>
    /\ UNCHANGED <<fails, limitVars, storeVars, summaryVars, query, verdict, watchVars>>

\* The user writes, empties or removes a data file
EditFile(f, c) ==
    /\ Edited
    /\ files[f] # c
    /\ files' = [files EXCEPT ![f] = c]
    /\ UNCHANGED <<ignoreFile, isGit, tracked, remote>>

\* The user writes or removes an ignore file
EditIgnore(sl, c) ==
    /\ Edited
    /\ ignoreFile[sl] # c
    /\ ignoreFile' = [ignoreFile EXCEPT ![sl] = c]
    /\ UNCHANGED <<files, isGit, tracked, remote>>

\* Another client of the same store uploads a record of its own
ForeignUpload(id) ==
    /\ Edited
    /\ id \notin DOMAIN remote
    /\ remote' = StoreUploadFile(remote, id, computeBufferHash(<<"x">>), <<"x">>)
    /\ UNCHANGED <<files, ignoreFile, isGit, tracked>>

\* git init, and git add of the files on disk
GitInit ==
    /\ Edited
    /\ ~isGit
    /\ isGit' = TRUE
    /\ tracked' = ExistingFiles(files)
    /\ UNCHANGED <<files, ignoreFile, remote>>

\* ------------------------------------------------------------------------
\* initialSync (utils.ts 139-214)
\* ------------------------------------------------------------------------

\* The in-scope files of a pass: getFiles filtered through isIgnored
RepoFiles(fs, ign, git, index, repoRoot) ==
    {filePath \in getFiles(fs, ign, git, index, repoRoot) :
        ~isIgnored(<<>>, ign, filePath, repoRoot)}

\* The entries getAllFilesRecursive asks isIgnored about: those of the root
\* and of every directory it descends into
RECURSIVE WalkerChecked(_, _, _, _)
WalkerChecked(fs, ign, dir, root) ==
    LET keep(e) == ~isHiddenFile(e, root) /\ ~isIgnored(<<>>, ign, e, root)
    IN  FileEntries(fs, dir) \cup DirEntries(dir)
        \cup UNION {WalkerChecked(fs, ign, d, root) :
                        d \in {e \in DirEntries(dir) : keep(e)}}

\* ignoreCache after getFiles and the filter of initialSync (utils.ts
\* 148-151) on a new NodeFileSystem: getFiles loads the root, each isIgnored
\* call the directories it consults
PassCache(fs, ign, git, index, root) ==
    LET checked == IF git THEN getGitFiles(fs, ign, index)
                   ELSE WalkerChecked(fs, ign, root, root)
        dirs == {root} \cup UNION {DOMAIN isIgnoredResult(<<>>, ign, p, root).cache :
                                       p \in checked}
    IN  [d \in dirs |-> LoadDirectoryIgnoreFilter(ign, d)]

\* The summary of the pass that returned last, kept while nothing changed
PrevSummary ==
    IF changed \/ phase = "rejected" THEN NoPrev
    ELSE [kind |-> IF dryRun THEN "dry" ELSE "real", failed |-> failedCalls # {},
          uploaded |-> uploaded, deleted |-> deleted]

\* The pages whose request may throw: none (0) while the run has no failure
\* left
FailPages(store) ==
    IF fails < MaxFails THEN 0..NumPages(listFiles(store)) ELSE {0}

\* Lines 147-166 and the synchronous start of the tasks, for a dryRun of
\* drys and a listing whose failing page is one of failPages: every item is
\* handed to limit(); with no more items than the ceiling each task runs at
\* once up to its first await.  An upload task awaits readFile, a delete
\* task awaits store.deleteFile, and a dry-run delete task has no await and
\* completes.  When the listing throws, initialSync rejects at line 147.
InitialSyncStart(drys, failPages) ==
    /\ phase \in {"idle", "rejected"}
    /\ \E failPage \in failPages :
       \E snap \in {Snapshot(listFiles(remote), failPage)} :
          /\ fails' = IF failPage = 0 THEN fails ELSE fails + 1
          /\ failedCalls' = IF failPage = 0 THEN {}
                            ELSE {<<Root, "store.listFiles", failPage>>}
          /\ IF snap.rejected
             THEN /\ phase' = "rejected"
                  /\ result' = Rejected("store.listFiles")
                  /\ dryRun' = FALSE
                  /\ storeHashes' = <<>>
                  /\ repoFiles' = {}
                  /\ filesToDelete' = {}
                  /\ total' = 0
                  /\ task' = <<>>
                  /\ deleted' = 0
                  /\ processed' = 0
                  /\ deletedIds' = <<>>
                  /\ delCalls' = <<>>
                  /\ progress' = NoProgress
                  /\ UNCHANGED ignoreCache
             ELSE \E hashes \in {snap.hashes} :
                  \E rf \in {RepoFiles(files, ignoreFile, isGit, tracked, Root)} :
                  \E td \in {FilesToDelete(hashes, rf, Root)} :
                  \E cache \in {PassCache(files, ignoreFile, isGit, tracked, Root)} :
                  \E n \in {Total(rf, td)} :
                  \E dry \in drys :
                  \E logged \in {deleteBranch(dry) = "log"} :
                      /\ Cardinality(rf) + Cardinality(td) <= concurrency
                      /\ phase' = "running"
                      /\ result' = NoResult
                      /\ dryRun' = dry
                      /\ storeHashes' = hashes
                      /\ repoFiles' = rf
                      /\ filesToDelete' = td
                      /\ total' = n
                      /\ task' = [p \in rf \cup td |->
                                     IF p \in rf THEN "readFile"
                                     ELSE IF logged THEN "done" ELSE "store.deleteFile"]
                      /\ deleted' = IF logged THEN Cardinality(td) ELSE 0
                      /\ processed' = IF logged THEN Cardinality(td) ELSE 0
                      /\ deletedIds' = IF logged THEN [p \in td |-> 1] ELSE <<>>
                      /\ delCalls' = IF logged THEN <<>> ELSE [p \in td |-> 1]
                      /\ progress' = IF logged /\ td # {}
                                     THEN [calls |-> Cardinality(td),
                                           info  |-> Info(Cardinality(td), 0,
                                                          Cardinality(td), n,
                                                          SetToSeq(td)[Cardinality(td)])]
                                     ELSE NoProgress
                      /\ ignoreCache' = cache
    /\ buffer' = <<>>
    /\ uploaded' = 0
    /\ upCalls' = {}
    /\ uploadedIds' = {}
    /\ quotaAt' = NoQuota
    /\ prev' = PrevSummary
    /\ UNCHANGED <<envVars, changed, limitVars, storeVars, summaryVars, query, verdict, watchVars>>

\* How a store call settles: it resolves or, while the run has failures
\* left, it is rejected
Outcomes == IF fails < MaxFails THEN {"ok", "error"} ELSE {"ok"}

\* The same with the rejections told apart: a quota-exceeded response, or
\* another error
QuotaOutcomes == IF fails < MaxFails THEN {"ok", "error", "quota"} ELSE {"ok"}

\* The store has rejected a call; the first quota rejection of a pass is
\* remembered with the uploads requested so far
Failed(filePath, call, outcome) ==
    /\ fails' = fails + 1
    /\ failedCalls' = failedCalls \cup {<<filePath, call>>}
    /\ quotaAt' = IF outcome = "quota" /\ ~quotaAt.hit
                  THEN [hit |-> TRUE, upCalls |-> upCalls]
                  ELSE quotaAt

\* Lines 170-192: the task's readFile has settled
ReadFileDone(filePath) ==
    /\ phase = "running"
    /\ filePath \in DOMAIN task
    /\ task[filePath] = "readFile"
    /\ IF files[filePath] = NoFile
       THEN \* readFile throws: the catch reports progress only
            /\ task' = [task EXCEPT ![filePath] = AfterThrow("readFile")]
            /\ failedCalls' = failedCalls \cup {<<filePath, "readFile">>}
            /\ progress' = onProgress(progress,
                                      Info(processed, uploaded, deleted, total, filePath))
            /\ UNCHANGED <<processed, uploaded, uploadedIds>>
       ELSE LET hash == computeBufferHash(files[filePath])
                existingHash == MapGet(storeHashes, filePath)
                should == shouldUpload(existingHash, hash)
            IN  /\ processed' = processed + 1
                /\ IF uploadBranch(dryRun, should) = "count"
                   THEN /\ uploaded' = uploaded + 1
                        /\ uploadedIds' = uploadedIds \cup {filePath}
                        /\ task' = [task EXCEPT ![filePath] = "done"]
                        /\ progress' = onProgress(progress,
                                           Info(processed + 1, uploaded + 1, deleted,
                                                total, filePath))
                   ELSE IF uploadBranch(dryRun, should) = "uploadFile"
                   THEN /\ task' = [task EXCEPT ![filePath] = "uploadFile.readFile"]
                        /\ UNCHANGED <<uploaded, uploadedIds, progress>>
                   ELSE /\ task' = [task EXCEPT ![filePath] = "done"]
                        /\ progress' = onProgress(progress,
                                           Info(processed + 1, uploaded, deleted,
                                                total, filePath))
                        /\ UNCHANGED <<uploaded, uploadedIds>>
                /\ UNCHANGED failedCalls
    /\ UNCHANGED <<envVars, fails, phase, dryRun, storeHashes, repoFiles,
                   filesToDelete, buffer, total, deleted, upCalls, delCalls,
                   deletedIds, result, quotaAt, prev, changed, limitVars, storeVars, summaryVars, queryVars,
                   watchVars>>

\* uploadFile 105-125: its own readFile has settled; an empty buffer returns
\* false, otherwise the stream upload is issued with the buffer's hash
UploadReadDone(filePath) ==
    /\ phase = "running"
    /\ filePath \in DOMAIN task
    /\ task[filePath] = "uploadFile.readFile"
    /\ IF files[filePath] = NoFile
       THEN /\ task' = [task EXCEPT ![filePath] = AfterThrow("readFile")]
            /\ failedCalls' = failedCalls \cup {<<filePath, "readFile">>}
            /\ progress' = onProgress(progress,
                                      Info(processed, uploaded, deleted, total, filePath))
            /\ UNCHANGED <<buffer, upCalls>>
       ELSE IF files[filePath] = Empty
       THEN /\ task' = [task EXCEPT ![filePath] = "done"]
            /\ progress' = onProgress(progress,
                                      Info(processed, uploaded, deleted, total, filePath))
            /\ UNCHANGED <<buffer, upCalls, failedCalls>>
       ELSE /\ buffer' = MapSet(buffer, filePath, files[filePath])
            /\ upCalls' = upCalls \cup {<<filePath, "stream">>}
            /\ task' = [task EXCEPT ![filePath] = "store.uploadFile"]
            /\ UNCHANGED <<failedCalls, progress>>
    /\ UNCHANGED <<envVars, fails, phase, dryRun, storeHashes, repoFiles,
                   filesToDelete, total, processed, uploaded, deleted, delCalls,
                   uploadedIds, deletedIds, result, quotaAt, prev, changed, limitVars, storeVars, summaryVars,
                   queryVars, watchVars>>

\* uploadFile 120-136: the stream upload has settled.  The store reads the
\* stream when it takes the upload; on a rejection a text file is sent again
\* from the buffer, any other file returns false.
StoreUploadDone(filePath, outcome) ==
    /\ phase = "running"
    /\ filePath \in DOMAIN task
    /\ task[filePath] = "store.uploadFile"
    /\ IF StreamOutcome(files, filePath, outcome) = "ok"
       THEN /\ remote' = StoreUploadFile(remote, filePath,
                                         computeBufferHash(buffer[filePath]),
                                         files[filePath])
            /\ uploaded' = uploaded + 1
            /\ uploadedIds' = uploadedIds \cup {filePath}
            /\ task' = [task EXCEPT ![filePath] = "done"]
            /\ progress' = onProgress(progress,
                                      Info(processed, uploaded + 1, deleted, total, filePath))
            /\ UNCHANGED <<upCalls, failedCalls, fails, quotaAt>>
       ELSE /\ Failed(filePath, "store.uploadFile", StreamOutcome(files, filePath, outcome))
            /\ IF isText(filePath)
               THEN /\ upCalls' = upCalls \cup {<<filePath, "text">>}
                    /\ task' = [task EXCEPT ![filePath] = "store.uploadFile.text"]
                    /\ UNCHANGED progress
               ELSE /\ task' = [task EXCEPT ![filePath] = "done"]
                    /\ progress' = onProgress(progress,
                                       Info(processed, uploaded, deleted, total, filePath))
                    /\ UNCHANGED upCalls
            /\ UNCHANGED <<remote, uploaded, uploadedIds>>
    /\ UNCHANGED <<files, ignoreFile, isGit, tracked, edits, phase, dryRun,
                   storeHashes, repoFiles, filesToDelete, buffer, total, processed,
                   deleted, delCalls, deletedIds, result, prev, changed, limitVars, storeVars, summaryVars,
                   queryVars, watchVars>>

\* uploadFile 130-136: the text upload of the buffer has settled; a rejection
\* propagates to the catch of the task
StoreUploadTextDone(filePath, outcome) ==
    /\ phase = "running"
    /\ filePath \in DOMAIN task
    /\ task[filePath] = "store.uploadFile.text"
    /\ IF outcome = "ok"
       THEN /\ remote' = StoreUploadFile(remote, filePath,
                                         computeBufferHash(buffer[filePath]),
                                         buffer[filePath])
            /\ uploaded' = uploaded + 1
            /\ uploadedIds' = uploadedIds \cup {filePath}
            /\ task' = [task EXCEPT ![filePath] = "done"]
            /\ progress' = onProgress(progress,
                                      Info(processed, uploaded + 1, deleted, total, filePath))
            /\ UNCHANGED <<failedCalls, fails, quotaAt>>
       ELSE /\ Failed(filePath, "store.uploadFile.text", outcome)
            /\ task' = [task EXCEPT ![filePath] = AfterThrow("store.uploadFile")]
            /\ progress' = onProgress(progress,
                                      Info(processed, uploaded, deleted, total, filePath))
            /\ UNCHANGED <<remote, uploaded, uploadedIds>>
    /\ UNCHANGED <<files, ignoreFile, isGit, tracked, edits, phase, dryRun,
                   storeHashes, repoFiles, filesToDelete, buffer, total, processed,
                   deleted, upCalls, delCalls, deletedIds, result, prev, changed,
                   limitVars, storeVars, summaryVars, queryVars, watchVars>>

\* Lines 197-209: store.deleteFile has settled
StoreDeleteDone(filePath, outcome) ==
    /\ phase = "running"
    /\ filePath \in DOMAIN task
    /\ task[filePath] = "store.deleteFile"
    /\ IF outcome = "ok"
       THEN /\ remote' = StoreDeleteFile(remote, filePath)
            /\ deleted' = deleted + 1
            /\ deletedIds' = BagAdd(deletedIds, filePath)
            /\ task' = [task EXCEPT ![filePath] = "done"]
            /\ progress' = onProgress(progress,
                                      Info(processed + 1, uploaded, deleted + 1, total,
                                           filePath))
            /\ UNCHANGED <<failedCalls, fails, quotaAt>>
       ELSE /\ Failed(filePath, "store.deleteFile", outcome)
            /\ task' = [task EXCEPT ![filePath] = AfterThrow("store.deleteFile")]
            /\ progress' = onProgress(progress,
                                      Info(processed + 1, uploaded, deleted, total, filePath))
            /\ UNCHANGED <<remote, deleted, deletedIds>>
    /\ processed' = processed + 1
    /\ UNCHANGED <<files, ignoreFile, isGit, tracked, edits, phase, dryRun,
                   storeHashes, repoFiles, filesToDelete, buffer, total, uploaded,
                   upCalls, delCalls, uploadedIds, result, prev, changed, limitVars, storeVars, summaryVars,
                   queryVars, watchVars>>

\* Lines 166 and 213: Promise.all has settled; when it has resolved the
\* counters are returned, when a task has rejected initialSync rejects
InitialSyncReturn ==
    /\ phase = "running"
    /\ PromiseAll(task) # "pending"
    /\ IF PromiseAll(task) = "resolved"
       THEN /\ phase' = "idle"
            /\ result' = Resolved(SyncResult(processed, uploaded, deleted, total))
            /\ changed' = FALSE
       ELSE /\ phase' = "rejected"
            /\ result' = Rejected("task")
            /\ UNCHANGED changed
    /\ UNCHANGED <<envVars, fails, dryRun, storeHashes, repoFiles, filesToDelete,
                   task, buffer, total, processed, uploaded, deleted, upCalls,
                   delCalls, uploadedIds, deletedIds, failedCalls, progress, quotaAt,
                   prev, limitVars, storeVars, summaryVars, queryVars, watchVars>>

\* The steps of a running pass whose store calls settle as outs allows
PassSteps(outs) ==
    \/ \E p \in DOMAIN task : ReadFileDone(p)
    \/ \E p \in DOMAIN task : UploadReadDone(p)
    \/ \E p \in DOMAIN task : \E outcome \in outs : StoreUploadDone(p, outcome)
    \/ \E p \in DOMAIN task : \E outcome \in outs : StoreUploadTextDone(p, outcome)
    \/ \E p \in DOMAIN task : \E outcome \in outs : StoreDeleteDone(p, outcome)
    \/ InitialSyncReturn

PassStep == PassSteps(Outcomes)

\* Reconciliation of a tree: one file is written, emptied or removed, the
\* other removed or restored, an ignore file appears, other clients write to
\* the store, store calls may fail
Next ==
    \/ \E c \in Contents \cup {NoFile} : EditFile(FileK, c)
    \/ \E c \in {<<"x">>, NoFile} : EditFile(FileO, c)
    \/ EditIgnore(<<SubDir, MgrepIgnoreName>>, <<StarT, NotK>>)
    \/ \E id \in ForeignIds : ForeignUpload(id)
    \/ InitialSyncStart(BOOLEAN, {0})
    \/ PassStep

Spec == Init /\ [][Next]_vars

\* The steps of a running pass when no store call fails
TreePassStep ==
    \/ \E p \in DOMAIN task : ReadFileDone(p)
    \/ \E p \in DOMAIN task : UploadReadDone(p)
    \/ \E p \in DOMAIN task : StoreUploadDone(p, "ok")
    \/ \E p \in DOMAIN task : StoreDeleteDone(p, "ok")
    \/ InitialSyncReturn

\* A tree that holds a hidden file, with any ignore files, under git or not,
\* with the files on disk all tracked or all untracked
TreeInit ==
    /\ files = [f \in LocalFiles |-> <<"x">>]
    /\ ignoreFile \in [IgnoreSlots -> {NoIgnore, <<StarT>>, <<NotK>>}]
    /\ isGit \in BOOLEAN
    /\ tracked \in (IF isGit THEN {{}, LocalFiles} ELSE {{}})
    /\ remote = <<>>
    /\ edits = 0
    /\ fails = 0
    /\ phase = "idle"
    /\ changed = TRUE
    /\ PassReset
    /\ LimitIdle
    /\ QueryIdle
    /\ WatchIdle
    /\ StoreIdle
    /\ SummaryIdle

\* Reconciliation of such a tree: a file is removed, the tree is put under git
TreeNext ==
    \/ EditFile(FileK, NoFile)
    \/ GitInit
    \/ InitialSyncStart(BOOLEAN, {0})
    \/ TreePassStep

SpecTree == TreeInit /\ [][TreeNext]_vars

\* A tree outside version control whose ignore files may ignore the whole
\* directory s, and may re-include s/k.t below it; the store holds a record
\* of a.t, which is gone
WalkInit ==
    /\ files = [f \in LocalFiles |-> <<"x">>]
    /\ ignoreFile \in [IgnoreSlots -> {NoIgnore, <<DirS>>, <<NotK>>}]
    /\ isGit = FALSE
    /\ tracked = {}
    /\ remote = [id \in {FileA} |-> [hash |-> computeBufferHash(<<"x">>), content |-> <<"x">>]]
    /\ edits = 0
    /\ fails = 0
    /\ phase = "idle"
    /\ changed = TRUE
    /\ PassReset
    /\ LimitIdle
    /\ QueryIdle
    /\ WatchIdle
    /\ StoreIdle
    /\ SummaryIdle

\* One pass over such a tree, the walker listing its files
WalkNext ==
    \/ InitialSyncStart(BOOLEAN, {0})
    \/ TreePassStep

SpecWalk == WalkInit /\ [][WalkNext]_vars

\* ------------------------------------------------------------------------
\* Passes over a store that holds records, with failing calls
\* ------------------------------------------------------------------------

\* A store whose records of ids all hold the content c
StoreOf(ids, c) == [id \in ids |-> [hash |-> computeBufferHash(c), content |-> c]]

\* The stores a pass may find: empty; s/k.t in sync; s/k.t stale next to a
\* foreign record; two files in sync and a file that is gone; the three
\* stale next to two foreign records, listed in three pages
PassStores ==
    {StoreOf({}, <<"x">>),
     StoreOf({FileK}, <<"x">>),
     StoreOf({FileK, SiblingId}, <<"y">>),
     StoreOf({FileA, FileK, FileO}, <<"x">>),
     StoreOf({FileA, FileK, FileO, SiblingId, RootId}, <<"y">>)}

\* The tree of a pass: s/k.t with or without bytes, and next to it s/o.t or
\* the image s/p.i, which is not text, or neither
PassInit ==
    /\ files \in {fs \in [LocalFiles \cup {FileP} -> {<<"x">>, Empty, NoFile}] :
                     /\ fs[FileH] = NoFile
                     /\ fs[FileK] # NoFile
                     /\ fs[FileO] # Empty
                     /\ fs[FileP] # Empty
                     /\ fs[FileP] # NoFile => fs[FileO] = NoFile}
    /\ ignoreFile = [sl \in IgnoreSlots |-> NoIgnore]
    /\ isGit = FALSE
    /\ tracked = {}
    /\ remote \in PassStores
    /\ edits = 0
    /\ fails = 0
    /\ phase = "idle"
    /\ changed = TRUE
    /\ PassReset
    /\ LimitIdle
    /\ QueryIdle
    /\ WatchIdle
    /\ StoreIdle
    /\ SummaryIdle

\* A file is removed while a pass is running, between the enumeration and
\* a read of it
FileVanishes(f) ==
    /\ phase = "running"
    /\ edits < MaxEdits
    /\ files[f] # NoFile
    /\ edits' = edits + 1
    /\ files' = [files EXCEPT ![f] = NoFile]
    /\ UNCHANGED <<ignoreFile, isGit, tracked, remote, fails, phase, dryRun,
                   storeHashes, repoFiles, filesToDelete, task, buffer, total, processed,
                   uploaded, deleted, upCalls, delCalls, uploadedIds, deletedIds,
                   failedCalls, result, progress, quotaAt, prev, changed, limitVars, storeVars, summaryVars,
                   queryVars, watchVars>>

\* A pass over such a store, called again when it rejects: the listing may
\* throw at any page, store calls may be rejected, with a quota response or
\* another error, files may vanish under the pass
PassNext ==
    \/ changed /\ InitialSyncStart(BOOLEAN, FailPages(remote))
    \/ PassSteps(QuotaOutcomes)
    \/ \E f \in {FileK, FileO} : FileVanishes(f)

SpecPass == PassInit /\ [][PassNext]_vars

\* ------------------------------------------------------------------------
\* startWatch (watch_mcp.ts 70-200)
\* ------------------------------------------------------------------------

\* What follows the initial pass when a rejected pass is treated as a
\* returned one
AfterSyncNoCatch(settled, dry) == IF dry /\ settled.kind = "resolved" THEN "return" ELSE "fs.watch"

\* What follows the initial pass without the dry-run test
AfterSyncNoDry(settled, dry) ==
    IF settled.kind = "resolved" THEN "fs.watch"
    ELSE IF settled.error = "QuotaExceededError" THEN "process.exit"
    ELSE "throw"

\* Lines 113-160: a dry run returns after the summary, a real run goes on
\* to fs.watch; a rejected pass exits the process when the error is a
\* QuotaExceededError and is thrown again to the outer catch otherwise
AfterSync(settled, dry) ==
    IF settled.kind = "resolved" THEN (IF dry THEN "return" ELSE "fs.watch")
    ELSE IF settled.error = "QuotaExceededError" THEN "process.exit"
    ELSE "throw"

\* Lines 192-199: the outer catch clears the refresh timer and sets the
\* exit code
OuterCatch ==
    /\ pc' = "failed"
    /\ refreshInterval' = FALSE
    /\ exitCode' = 1

\* fs.statSync(filePath).isFile(): false or a throw for a path with no file
StatIsFile(fs, filePath) == filePath \in DOMAIN fs /\ fs[filePath] # NoFile

\* fs.existsSync(filePath)
PathExists(fs, filePath) == StatIsFile(fs, filePath) \/ IsDirectory(filePath)

\* The callback without the isIgnored test
CallbackBranchNoIgnore(ignored, isFile, underRoot) ==
    IF isFile THEN "uploadFile"
    ELSE IF underRoot THEN "deleteFile"
    ELSE "return"

\* Lines 169-190: what the callback does with a path, given the verdict of
\* isIgnored, whether stat finds a regular file, and whether the path starts
\* with the root and does not exist
CallbackBranch(ignored, isFile, underRoot) ==
    IF ignored THEN "return"
    ELSE IF isFile THEN "uploadFile"
    ELSE IF underRoot THEN "deleteFile"
    ELSE "return"

\* A rejected promise of the callback with no handler attached
LiveCatchMissing(op) == "unhandledRejection"

\* Lines 180-182, 186-188: the .catch attached to the promise of uploadFile
\* and of deleteFile logs the error
LiveCatch(op) == "logged"

\* Where the session is after a promise of the callback has settled: an
\* unhandled rejection ends the process
AfterLive(thrown, op) ==
    IF thrown /\ LiveCatch(op) # "logged" THEN "crashed" ELSE pc

\* The command line runs startWatch(options)
StartWatch(dry) ==
    /\ pc = "none"
    /\ pc' = "createStore"
    /\ watchDry' = dry
    /\ UNCHANGED <<syncVars, limitVars, storeVars, summaryVars, queryVars, exitCode, refreshInterval, watchers,
                   notified, handled, live, liveCalls, liveLogged>>

\* Lines 77-105: createStore has settled.  With a store the refresh timer
\* is set unless this is a dry run, the file system and the spinner are
\* made, and store.retrieve is called.
CreateStoreDone(ok) ==
    /\ pc = "createStore"
    /\ IF ok
       THEN /\ pc' = "store.retrieve"
            /\ refreshInterval' = ~watchDry
            /\ UNCHANGED exitCode
       ELSE OuterCatch
    /\ UNCHANGED <<syncVars, limitVars, storeVars, summaryVars, queryVars, watchDry, watchers, notified, handled,
                   live, liveCalls, liveLogged>>

\* Lines 104-112: store.retrieve has settled; when it throws the store is
\* created
RetrieveDone(ok) ==
    /\ pc = "store.retrieve"
    /\ pc' = IF ok THEN "initialSync" ELSE "store.create"
    /\ UNCHANGED <<syncVars, limitVars, storeVars, summaryVars, queryVars, watchDry, exitCode, refreshInterval,
                   watchers, notified, handled, live, liveCalls, liveLogged>>

\* Lines 107-112, 145-158: store.create has settled; when it throws the
\* inner catch throws again
CreateDone(ok) ==
    /\ pc = "store.create"
    /\ IF ok
       THEN /\ pc' = "initialSync"
            /\ UNCHANGED <<exitCode, refreshInterval>>
       ELSE OuterCatch
    /\ UNCHANGED <<syncVars, limitVars, storeVars, summaryVars, queryVars, watchDry, watchers, notified, handled,
                   live, liveCalls, liveLogged>>

\* Lines 113-120: initialSync(store, fileSystem, options.store, watchRoot,
\* options.dryRun, onProgress) is called
WatchInitialSync ==
    /\ pc = "initialSync"
    /\ phase = "idle"
    /\ result.kind = "none"
    /\ InitialSyncStart({watchDry}, FailPages(remote))

\* Lines 121-162: initialSync has settled
WatchAfterSync ==
    /\ pc = "initialSync"
    /\ result.kind # "none"
    /\ \E next \in {AfterSync(result, watchDry)} :
          IF next = "return"
          THEN /\ pc' = "returned"
               /\ UNCHANGED <<exitCode, refreshInterval, watchers>>
          ELSE IF next = "fs.watch"
          THEN /\ pc' = "watching"
               /\ watchers' = watchers + 1
               /\ UNCHANGED <<exitCode, refreshInterval>>
          ELSE IF next = "process.exit"
          THEN /\ pc' = "exited"
               /\ exitCode' = 1
               /\ UNCHANGED <<refreshInterval, watchers>>
          ELSE /\ OuterCatch
               /\ UNCHANGED watchers
    /\ ignoreCache' = IF AfterSync(result, watchDry) = "fs.watch"
                      THEN CacheWith(ignoreCache, ignoreFile, Root)
                      ELSE ignoreCache
    /\ UNCHANGED <<syncVars, limitVars, storeVars, summaryVars, query, verdict, watchDry, notified, handled,
                   live, liveCalls, liveLogged>>

\* The user writes or removes a file while the session runs; fs.watch
\* queues a notification for each subscription
FsChange(f, c) ==
    /\ pc \notin {"none", "failed", "exited", "returned"}
    /\ edits < MaxEdits
    /\ files[f] # c
    /\ edits' = edits + 1
    /\ files' = [files EXCEPT ![f] = c]
    /\ notified' = IF watchers > 0 THEN notified \cup {f} ELSE notified
    /\ UNCHANGED <<ignoreFile, isGit, tracked, remote, fails, phase, dryRun,
                   storeHashes, repoFiles, filesToDelete, task, buffer, total, processed,
                   uploaded, deleted, upCalls, delCalls, uploadedIds, deletedIds,
                   failedCalls, result, progress, quotaAt, prev, changed, limitVars, storeVars, summaryVars,
                   queryVars, pc, watchDry, exitCode, refreshInterval, watchers, handled,
                   live, liveCalls, liveLogged>>

\* fs.watch reports a path whose content the model does not change: a file
\* matched by the global patterns was removed, a file was touched, an entry
\* of a directory changed, or a directory was removed
FsNotify(filePath) ==
    /\ watchers > 0
    /\ edits < MaxEdits
    /\ filePath \notin notified
    /\ edits' = edits + 1
    /\ notified' = notified \cup {filePath}
    /\ UNCHANGED <<files, ignoreFile, isGit, tracked, remote, fails, phase, dryRun,
                   storeHashes, repoFiles, filesToDelete, task, buffer, total, processed,
                   uploaded, deleted, upCalls, delCalls, uploadedIds, deletedIds,
                   failedCalls, result, progress, quotaAt, prev, changed, limitVars, storeVars, summaryVars,
                   queryVars, pc, watchDry, exitCode, refreshInterval, watchers, handled,
                   live, liveCalls, liveLogged>>

\* An operation the callback has started: the ordinal of its notification,
\* the function, the path, the await it is suspended at, the buffer read
LiveOp(n, op, filePath, at, buf) ==
    [id |-> n, op |-> op, filePath |-> filePath, at |-> at, buffer |-> buf]

\* Lines 162-191, the fs.watch callback: an ignored path returns; a regular
\* file is handed to uploadFile; a path that stat cannot find, that starts
\* with the root and does not exist is handed to deleteFile
WatchCallback(filePath) ==
    /\ filePath \in notified
    /\ notified' = notified \ {filePath}
    /\ handled' = handled + 1
    /\ \E r \in {isIgnoredResult(ignoreCache, ignoreFile, filePath, Root)} :
       \E branch \in {CallbackBranch(r.ignored, StatIsFile(files, filePath),
                                     /\ StartsWith(filePath, Root)
                                     /\ ~PathExists(files, filePath))} :
          /\ ignoreCache' = r.cache
          /\ IF branch = "uploadFile"
             THEN /\ live' = live \cup {LiveOp(handled + 1, "uploadFile", filePath,
                                               "readFile", <<>>)}
                  /\ UNCHANGED liveCalls
             ELSE IF branch = "deleteFile"
             THEN /\ live' = live \cup {LiveOp(handled + 1, "deleteFile", filePath,
                                               "store.deleteFile", <<>>)}
                  /\ liveCalls' = liveCalls \cup {<<filePath, "store.deleteFile">>}
             ELSE UNCHANGED <<live, liveCalls>>
    /\ UNCHANGED <<syncVars, limitVars, storeVars, summaryVars, query, verdict, pc, watchDry, exitCode,
                   refreshInterval, watchers, liveLogged>>

\* uploadFile 105-125 for the callback: readFile has settled
LiveReadDone(o) ==
    /\ o \in live
    /\ o.at = "readFile"
    /\ IF files[o.filePath] = NoFile \/ files[o.filePath] = Empty
       THEN /\ live' = live \ {o}
            /\ UNCHANGED liveCalls
       ELSE /\ live' = (live \ {o}) \cup
                           {[o EXCEPT !.at = "store.uploadFile",
                                      !.buffer = files[o.filePath]]}
            /\ liveCalls' = liveCalls \cup {<<o.filePath, "stream">>}
    /\ pc' = AfterLive(files[o.filePath] = NoFile, o.op)
    /\ liveLogged' = IF files[o.filePath] = NoFile
                     THEN liveLogged \cup {<<o.filePath, "readFile">>}
                     ELSE liveLogged
    /\ UNCHANGED <<syncVars, limitVars, storeVars, summaryVars, queryVars, watchDry, exitCode,
                   refreshInterval, watchers, notified, handled>>

\* uploadFile 120-136 for the callback: a store upload has settled; the
\* stream is read when the store takes it, a rejected text file is sent
\* again from the buffer, a rejection of that is logged by the callback
LiveUploadDone(o, outcome) ==
    /\ o \in live
    /\ o.at \in {"store.uploadFile", "store.uploadFile.text"}
    /\ IF (IF o.at = "store.uploadFile" THEN StreamOutcome(files, o.filePath, outcome)
           ELSE outcome) = "ok"
       THEN /\ remote' = StoreUploadFile(remote, o.filePath, computeBufferHash(o.buffer),
                                         IF o.at = "store.uploadFile"
                                         THEN files[o.filePath] ELSE o.buffer)
            /\ live' = live \ {o}
            /\ UNCHANGED <<fails, liveCalls>>
       ELSE /\ fails' = fails + 1
            /\ UNCHANGED remote
            /\ IF o.at = "store.uploadFile" /\ isText(o.filePath)
               THEN /\ live' = (live \ {o}) \cup {[o EXCEPT !.at = "store.uploadFile.text"]}
                    /\ liveCalls' = liveCalls \cup {<<o.filePath, "text">>}
               ELSE /\ live' = live \ {o}
                    /\ UNCHANGED liveCalls
    /\ pc' = AfterLive(o.at = "store.uploadFile.text" /\ outcome # "ok", o.op)
    /\ liveLogged' = IF o.at = "store.uploadFile.text" /\ outcome # "ok"
                     THEN liveLogged \cup {<<o.filePath, "store.uploadFile">>}
                     ELSE liveLogged
    /\ UNCHANGED <<files, ignoreFile, isGit, tracked, edits, phase, dryRun,
                   storeHashes, repoFiles, filesToDelete, task, buffer, total, processed,
                   uploaded, deleted, upCalls, delCalls, uploadedIds, deletedIds,
                   failedCalls, result, progress, quotaAt, prev, changed, limitVars, storeVars, summaryVars,
                   queryVars, watchDry, exitCode, refreshInterval, watchers, notified,
                   handled>>

\* deleteFile 91-97 for the callback: store.deleteFile has settled; a
\* rejection is logged by the callback
LiveDeleteDone(o, outcome) ==
    /\ o \in live
    /\ o.at = "store.deleteFile"
    /\ live' = live \ {o}
    /\ IF outcome = "ok"
       THEN /\ remote' = StoreDeleteFile(remote, o.filePath)
            /\ UNCHANGED fails
       ELSE /\ fails' = fails + 1
            /\ UNCHANGED remote
    /\ pc' = AfterLive(outcome # "ok", o.op)
    /\ liveLogged' = IF outcome # "ok"
                     THEN liveLogged \cup {<<o.filePath, "store.deleteFile">>}
                     ELSE liveLogged
    /\ UNCHANGED <<files, ignoreFile, isGit, tracked, edits, phase, dryRun,
                   storeHashes, repoFiles, filesToDelete, task, buffer, total, processed,
                   uploaded, deleted, upCalls, delCalls, uploadedIds, deletedIds,
                   failedCalls, result, progress, quotaAt, prev, changed, limitVars, storeVars, summaryVars,
                   queryVars, watchDry, exitCode, refreshInterval, watchers, notified,
                   handled, liveCalls>>

\* A tree of two text files in a subdirectory whose .mgrepignore, when it
\* exists, ignores every *.t but k.t; an empty store, no session yet
WatchInit ==
    /\ files = [f \in LocalFiles |-> IF f \in {FileK, FileO} THEN <<"x">> ELSE NoFile]
    /\ ignoreFile \in {[sl \in IgnoreSlots |-> NoIgnore],
                       [sl \in IgnoreSlots |->
                           IF sl = <<SubDir, MgrepIgnoreName>> THEN <<StarT, NotK>>
                           ELSE NoIgnore]}
    /\ isGit = FALSE
    /\ tracked = {}
    /\ remote = <<>>
    /\ edits = 0
    /\ fails = 0
    /\ phase = "idle"
    /\ changed = TRUE
    /\ PassReset
    /\ LimitIdle
    /\ QueryIdle
    /\ WatchIdle
    /\ StoreIdle
    /\ SummaryIdle

\* A watch session over that tree: the setup calls may throw, store calls
\* may fail, files are written and removed while the session runs, visible,
\* hidden or ignored
WatchNext ==
    \/ \E dry \in BOOLEAN : StartWatch(dry)
    \/ \E ok \in BOOLEAN : CreateStoreDone(ok)
    \/ \E ok \in BOOLEAN : RetrieveDone(ok)
    \/ \E ok \in BOOLEAN : CreateDone(ok)
    \/ WatchInitialSync
    \/ PassSteps(Outcomes)
    \/ WatchAfterSync
    \/ \E c \in {<<"y">>, NoFile} : FsChange(FileK, c)
    \/ pc = "watching" /\ FsChange(FileO, NoFile)
    \/ pc = "watching" /\ FsChange(FileH, <<"y">>)
    \/ FsNotify(FileB)
    \/ pc = "watching" /\ FsNotify(FileO)
    \/ pc = "watching" /\ \E d \in {SubDir, GoneDir} : FsNotify(d)
    \/ \E f \in notified : WatchCallback(f)
    \/ \E o \in live : LiveReadDone(o)
    \/ \E o \in live : \E outcome \in Outcomes : LiveUploadDone(o, outcome)
    \/ \E o \in live : \E outcome \in Outcomes : LiveDeleteDone(o, outcome)

SpecWatch == WatchInit /\ [][WatchNext]_vars

\* ------------------------------------------------------------------------
\* TestStore: the mutex of its load-modify-save sequences (store.ts)
\* ------------------------------------------------------------------------

\* Concurrent requests made to one TestStore
MaxReqs == 3

Requests == 1..MaxReqs

\* The first request is create({name: "mgrep"}); the others are uploadFile
\* with the request number as options.external_id
OpOf(r) == IF r = 1 THEN "create" ELSE "uploadFile"

\* load() of a backing file that does not exist yet
NoDb == [name |-> "", files |-> {}]

\* The requests that have entered synchronized
Invoked == {r \in DOMAIN req : req[r].newLock # 0}

\* synchronized entering fn without waiting for the lock before
PreviousSettledAlways(previousLock, resolved) == TRUE

\* await previousLock continues when that promise is resolved
PreviousSettled(previousLock, resolved) == previousLock \in resolved

\* synchronized leaving this.mutex as it was
NextMutexStale(current, newLock) == current

\* this.mutex = newLock
NextMutex(current, newLock) == newLock

\* synchronized up to await previousLock: a new lock promise is made,
\* this.mutex is read into previousLock and replaced
Synchronized(r) ==
    LET newLock == Cardinality(Invoked) + 1
    IN  /\ req' = MapSet(req, r, [at |-> "previousLock", previousLock |-> mutex,
                                  newLock |-> newLock, db |-> NoDb])
        /\ mutex' = NextMutex(mutex, newLock)

\* A caller invokes create or uploadFile: create enters synchronized at
\* once, uploadFile awaits readContent first
StoreCall(r) ==
    /\ r \notin DOMAIN req
    /\ IF OpOf(r) = "create"
       THEN Synchronized(r)
       ELSE /\ req' = MapSet(req, r, [at |-> "readContent", previousLock |-> 0,
                                      newLock |-> 0, db |-> NoDb])
            /\ UNCHANGED mutex
    /\ UNCHANGED <<syncVars, limitVars, queryVars, watchVars, summaryVars, unlocked, backing, pending,
                   seen, snapshotMap>>

\* uploadFile: readContent has resolved and synchronized is entered
ReadContentDone(r) ==
    /\ r \in DOMAIN req
    /\ req[r].at = "readContent"
    /\ Synchronized(r)
    /\ UNCHANGED <<syncVars, limitVars, queryVars, watchVars, summaryVars, unlocked, backing, pending,
                   seen, snapshotMap>>

\* synchronized: await previousLock has continued; fn starts and awaits load
LockAcquired(r) ==
    /\ r \in DOMAIN req
    /\ req[r].at = "previousLock"
    /\ PreviousSettled(req[r].previousLock, unlocked)
    /\ req' = [req EXCEPT ![r].at = "load"]
    /\ UNCHANGED <<syncVars, limitVars, queryVars, watchVars, summaryVars, mutex, unlocked, backing,
                   pending, seen, snapshotMap>>

\* fn: load has read the backing file; the record or the name is set in
\* the object read and save is awaited
LoadDone(r) ==
    /\ r \in DOMAIN req
    /\ req[r].at = "load"
    /\ req' = [req EXCEPT ![r].at = "save",
                          ![r].db = IF OpOf(r) = "create"
                                    THEN [backing EXCEPT !.name = "mgrep"]
                                    ELSE [backing EXCEPT !.files = @ \cup {r}]]
    /\ UNCHANGED <<syncVars, limitVars, queryVars, watchVars, summaryVars, mutex, unlocked, backing,
                   pending, seen, snapshotMap>>

\* A lock resolved only when fn has returned
FinallyOnSuccess(resolved, newLock, ok) ==
    IF ok THEN resolved \cup {newLock} ELSE resolved

\* synchronized 265-269: finally { unlock() } resolves newLock whether fn
\* returned or threw
Finally(resolved, newLock, ok) == resolved \cup {newLock}

\* fn: save has written the object to the backing file, or writeFile was
\* rejected; the finally of synchronized resolves the lock
SaveDone(r, ok) ==
    /\ r \in DOMAIN req
    /\ req[r].at = "save"
    /\ backing' = IF ok THEN req[r].db ELSE backing
    /\ unlocked' = Finally(unlocked, req[r].newLock, ok)
    /\ req' = [req EXCEPT ![r].at = IF ok THEN "done" ELSE "rejected"]
    /\ UNCHANGED <<syncVars, limitVars, queryVars, watchVars, summaryVars, mutex, pending, seen,
                   snapshotMap>>

\* Concurrent create and uploadFile calls on one TestStore, their awaits
\* continuing in any order
StoreNext ==
    \/ \E r \in Requests : StoreCall(r)
    \/ \E r \in Requests : ReadContentDone(r)
    \/ \E r \in Requests : LockAcquired(r)
    \/ \E r \in Requests : LoadDone(r)
    \/ \E r \in Requests : \E ok \in BOOLEAN : SaveDone(r, ok)

SpecStore == Init /\ [][StoreNext]_vars

\* The continuation of a settled await runs, and the reads and writes of
\* the backing file settle
SpecStoreFair ==
    /\ SpecStore
    /\ \A r \in Requests :
           /\ WF_vars(ReadContentDone(r))
           /\ WF_vars(LockAcquired(r))
           /\ WF_vars(LoadDone(r))
           /\ WF_vars(\E ok \in BOOLEAN : SaveDone(r, ok))

\* ------------------------------------------------------------------------
\* startWatcher: the debounced summary of the outcomes (part_000 681-711)
\* ------------------------------------------------------------------------

\* setTimeout(..., 500)
FlushDelay == 500

\* Steps of half a delay the clock makes, and outcomes recorded, in one run
MaxTicks == 4
MaxOutcomes == 3

\* scheduleFlush that sets a new timer at every outcome
scheduleFlushRestart(isVerbose, timer, t) ==
    IF isVerbose THEN timer ELSE TimerAt(t + FlushDelay)

\* scheduleFlush: nothing in verbose mode, nothing while a timer is pending,
\* otherwise a timer due after the delay
scheduleFlush(isVerbose, timer, t) ==
    IF isVerbose THEN timer
    ELSE IF timer.set THEN timer
    ELSE TimerAt(t + FlushDelay)

\* startWatcher is called, verbose or not
SummaryInit ==
    /\ files = [f \in LocalFiles |-> IF f = FileH THEN NoFile ELSE <<"x">>]
    /\ ignoreFile = [sl \in IgnoreSlots |-> NoIgnore]
    /\ isGit = FALSE
    /\ tracked = {}
    /\ remote = <<>>
    /\ edits = 0
    /\ fails = 0
    /\ phase = "idle"
    /\ changed = TRUE
    /\ PassReset
    /\ LimitIdle
    /\ QueryIdle
    /\ WatchIdle
    /\ StoreIdle
    /\ verbose \in BOOLEAN
    /\ pendingCounts = NoCounts
    /\ flushTimer = NoTimer
    /\ timers = {}
    /\ clock = 0
    /\ summaries = <<>>
    /\ recorded = NoCounts
    /\ firstAt = NoTimer

\* record(event, filePath), called after an upload or a delete succeeded
Record(event) ==
    /\ recorded["add"] + recorded["change"] + recorded["unlink"] < MaxOutcomes
    /\ pendingCounts' = [pendingCounts EXCEPT ![event] = @ + 1]
    /\ recorded' = [recorded EXCEPT ![event] = @ + 1]
    /\ flushTimer' = scheduleFlush(verbose, flushTimer, clock)
    /\ timers' = IF flushTimer' # flushTimer THEN timers \cup {flushTimer'.due}
                 ELSE timers
    /\ firstAt' = IF pendingCounts = NoCounts THEN TimerAt(clock) ELSE firstAt
    /\ UNCHANGED <<verbose, clock, summaries>>
    /\ UNCHANGED <<syncVars, limitVars, queryVars, watchVars, storeVars>>

\* The callback of a timer that is due: the summary line is printed when it
\* is not empty, the counts are zeroed, flushTimer is null
Flush(due) ==
    /\ due \in timers
    /\ clock = due
    /\ summaries' = IF pendingCounts # NoCounts THEN Append(summaries, pendingCounts)
                    ELSE summaries
    /\ pendingCounts' = NoCounts
    /\ flushTimer' = NoTimer
    /\ timers' = timers \ {due}
    /\ firstAt' = NoTimer
    /\ UNCHANGED <<verbose, clock, recorded>>
    /\ UNCHANGED <<syncVars, limitVars, queryVars, watchVars, storeVars>>

\* Half a delay passes; a timer that is due runs before time goes on
Tick ==
    /\ clock < MaxTicks * (FlushDelay \div 2)
    /\ \A due \in timers : clock < due
    /\ clock' = clock + FlushDelay \div 2
    /\ UNCHANGED <<verbose, pendingCounts, flushTimer, timers, summaries, recorded,
                   firstAt>>
    /\ UNCHANGED <<syncVars, limitVars, queryVars, watchVars, storeVars>>

SummaryNext ==
    \/ \E event \in Events : Record(event)
    \/ \E due \in timers : Flush(due)
    \/ Tick

SpecSummary == SummaryInit /\ [][SummaryNext]_vars

\* ------------------------------------------------------------------------
\* listStoreFileHashes over a listing that may repeat identifiers
\* ------------------------------------------------------------------------

MaxListing == 3

\* StoreFile records as store.listFiles may yield them: with or without an
\* external id, with one of two hashes
ListingRecords ==
    [external_id : {Undefined, FileA, FileK},
     metadata : [hash : {computeBufferHash(<<"x">>), computeBufferHash(<<"y">>)}]]

\* listStoreFileHashes is called: the listing the store will yield is still
\* to come, byExternalId is a new Map
SnapshotInit ==
    /\ files = [f \in LocalFiles |-> IF f = FileH THEN NoFile ELSE <<"x">>]
    /\ ignoreFile = [sl \in IgnoreSlots |-> NoIgnore]
    /\ isGit = FALSE
    /\ tracked = {}
    /\ remote = <<>>
    /\ edits = 0
    /\ fails = 0
    /\ phase = "idle"
    /\ changed = TRUE
    /\ PassReset
    /\ LimitIdle
    /\ QueryIdle
    /\ WatchIdle
    /\ mutex = 0
    /\ unlocked = {0}
    /\ req = <<>>
    /\ backing = [name |-> "", files |-> {}]
    /\ pending \in UNION {[1..n -> ListingRecords] : n \in 0..MaxListing}
    /\ seen = <<>>
    /\ snapshotMap = <<>>
    /\ SummaryIdle

\* One iteration of the for-await loop: the next record of the listing is
\* received and folded into byExternalId
ListingStep ==
    /\ pending # <<>>
    /\ snapshotMap' = listStoreFileHashes(<<Head(pending)>>, snapshotMap)
    /\ seen' = Append(seen, Head(pending))
    /\ pending' = Tail(pending)
    /\ UNCHANGED <<syncVars, limitVars, queryVars, watchVars, summaryVars, mutex, unlocked, req,
                   backing>>

SnapshotNext == ListingStep

SpecSnapshot == SnapshotInit /\ [][SnapshotNext]_vars

\* ------------------------------------------------------------------------
\* isIgnored lookups of one NodeFileSystem
\* ------------------------------------------------------------------------

\* A pattern that un-ignores that file
NotB == <<"!", "k", ".", "b">>

QueryPaths == {FileA, FileK, FileO, FileH, FileB, SubDir, HidDir}

\* Any ignore files, an empty cache, no lookup made
IgnoreInit ==
    /\ files = [f \in LocalFiles |-> <<"x">>]
    /\ ignoreFile \in [IgnoreSlots -> IgnoreContents \cup {NoIgnore, <<DirS>>, <<NotB>>}]
    /\ isGit = FALSE
    /\ tracked = {}
    /\ remote = <<>>
    /\ edits = 0
    /\ fails = 0
    /\ phase = "idle"
    /\ changed = TRUE
    /\ PassReset
    /\ LimitIdle
    /\ QueryIdle
    /\ WatchIdle
    /\ StoreIdle
    /\ SummaryIdle

\* fileSystem.isIgnored(filePath, Root)
IsIgnoredCall(filePath) ==
    /\ \E r \in {isIgnoredResult(ignoreCache, ignoreFile, filePath, Root)} :
           /\ verdict' = r.ignored
           /\ ignoreCache' = r.cache
    /\ query' = filePath
    /\ UNCHANGED <<syncVars, limitVars, storeVars, summaryVars, watchVars>>

IgnoreNext == \E filePath \in QueryPaths : IsIgnoredCall(filePath)

SpecIgnore == IgnoreInit /\ [][IgnoreNext]_vars

\* The .mgrepignore of the directory s is written, or removed, once while
\* the NodeFileSystem is in use; the object is not told
IgnoreFileEdit(content) ==
    /\ edits = 0
    /\ ignoreFile[<<SubDir, MgrepIgnoreName>>] # content
    /\ ignoreFile' = [ignoreFile EXCEPT ![<<SubDir, MgrepIgnoreName>>] = content]
    /\ edits' = edits + 1
    /\ UNCHANGED <<files, isGit, tracked, remote, fails, phase, dryRun, storeHashes,
                   repoFiles, filesToDelete, task, buffer, total, processed,
                   uploaded, deleted, upCalls, delCalls, uploadedIds, deletedIds,
                   failedCalls, result, progress, quotaAt, prev, changed>>
    /\ UNCHANGED <<limitVars, queryVars, watchVars, storeVars, summaryVars>>

IgnoreEditNext ==
    \/ \E filePath \in QueryPaths : IsIgnoredCall(filePath)
    \/ \E content \in {NoIgnore, <<StarT>>} : IgnoreFileEdit(content)

SpecIgnoreEdit == IgnoreInit /\ [][IgnoreEditNext]_vars

\* ------------------------------------------------------------------------
\* The limiter of initialSync (utils.ts 163-212), by the number of items
\* ------------------------------------------------------------------------

\* Items of the largest pass
MaxItems == 102

\* The plans of a pass: <<uploads, deletes>>
Plans == {<<n, MaxItems - n>> : n \in {0, 1, MaxItems \div 2, MaxItems}}

\* A limiter that starts every task it is handed
CanStartAlways(active) == TRUE

\* limit(): a task is started only below the ceiling
CanStart(active) == active < concurrency

Running == activeCount[1] + activeCount[2]

Waiting == limitQueue[1] + limitQueue[2]

\* queue.dequeue()(): the task enqueued first starts; the uploads were
\* enqueued before the deletes
StartNext ==
    IF limitQueue[1] > 0
    THEN /\ limitQueue' = <<limitQueue[1] - 1, limitQueue[2]>>
         /\ activeCount' = <<activeCount[1] + 1, activeCount[2]>>
    ELSE /\ limitQueue' = <<limitQueue[1], limitQueue[2] - 1>>
         /\ activeCount' = <<activeCount[1], activeCount[2] + 1>>

\* Lines 166-212: every item is handed to limit(), which enqueues it and
\* schedules one start attempt
LimitAll(plan) ==
    /\ Waiting = 0 /\ Running = 0 /\ ticks = 0
    /\ limitQueue' = plan
    /\ ticks' = plan[1] + plan[2]
    /\ UNCHANGED <<activeCount, syncVars, queryVars, watchVars, storeVars, summaryVars>>

\* One start attempt runs
StartTick ==
    /\ ticks > 0
    /\ ticks' = ticks - 1
    /\ IF CanStart(Running) /\ Waiting > 0
       THEN StartNext
       ELSE UNCHANGED <<limitQueue, activeCount>>
    /\ UNCHANGED <<syncVars, queryVars, watchVars, storeVars, summaryVars>>

\* A running task settles: its slot is given to the next task in the queue
TaskSettled(k) ==
    /\ activeCount[k] > 0
    /\ LET freed == [activeCount EXCEPT ![k] = @ - 1]
       IN  IF CanStart(freed[1] + freed[2]) /\ Waiting > 0
           THEN IF limitQueue[1] > 0
                THEN /\ limitQueue' = <<limitQueue[1] - 1, limitQueue[2]>>
                     /\ activeCount' = <<freed[1] + 1, freed[2]>>
                ELSE /\ limitQueue' = <<limitQueue[1], limitQueue[2] - 1>>
                     /\ activeCount' = <<freed[1], freed[2] + 1>>
           ELSE /\ activeCount' = freed
                /\ UNCHANGED limitQueue
    /\ UNCHANGED <<ticks, syncVars, queryVars, watchVars, storeVars, summaryVars>>

LimitNext ==
    \/ \E plan \in Plans : LimitAll(plan)
    \/ StartTick
    \/ \E k \in {1, 2} : TaskSettled(k)

SpecLimit == Init /\ [][LimitNext]_vars

\* ------------------------------------------------------------------------
\* Properties of the reconciliation pass
\* ------------------------------------------------------------------------

\* Path-segment containment: the segments of root are a proper prefix of the
\* segments of id
Parts(p) == NormalizeParts(Split(p), <<>>)

StrictlyUnder(root, id) ==
    /\ Len(Parts(id)) > Len(Parts(root))
    /\ SubSeq(Parts(id), 1, Len(Parts(root))) = Parts(root)

\* Every item of the pass has settled
AllSettled == \A p \in DOMAIN task : task[p] = "done"

\* A pass has run to its end and nothing has changed since
Returned == phase = "idle" /\ ~changed

\* The remote snapshot has no entry for f, or one with another hash than
\* the bytes of f have now
NewOrChanged(f) ==
    \/ f \notin DOMAIN storeHashes
    \/ storeHashes[f] # computeBufferHash(files[f])

\* The files on disk that isIgnored lets through
InScope == {f \in ExistingFiles(files) : ~isIgnored(<<>>, ignoreFile, f, Root)}

\* The remote identifiers under the root with no in-scope local file
ToDeleteRef == {id \in DOMAIN storeHashes : StrictlyUnder(Root, id) /\ id \notin InScope}

\* C1: a remote identifier that does not lie strictly under the sync root
\* (the root itself, a sibling sharing the root as a string prefix, a path
\* that resolves outside) is never passed to store.deleteFile, never counted
\* in deleted, and is still in the store, in real and in dry-run passes.
C1_DeletionScoping ==
    /\ \A id \in (DOMAIN delCalls) \cup (DOMAIN deletedIds) : StrictlyUnder(Root, id)
    /\ \A id \in DOMAIN storeHashes : ~StrictlyUnder(Root, id) => id \in DOMAIN remote

C1_Witness ==
    /\ Returned
    /\ ~dryRun
    /\ deleted >= 1
    /\ SiblingId \in DOMAIN storeHashes
    /\ SiblingId \in DOMAIN remote

\* C2: a dry-run pass issues no store.uploadFile and no store.deleteFile
\* call and leaves the identifiers and hashes of the store as the snapshot
\* found them, and when its items have settled the counters hold the number
\* of new-or-changed files and the number of identifiers to delete.
C2_DryRunNoMutation ==
    dryRun =>
        /\ upCalls = {}
        /\ delCalls = <<>>
        /\ listStoreFileHashes(listFiles(remote), <<>>) = storeHashes
        /\ AllSettled =>
               /\ deleted = Cardinality(filesToDelete)
               /\ uploaded = Cardinality({f \in repoFiles :
                                              files[f] # NoFile /\ NewOrChanged(f)})

C2_Witness ==
    /\ Returned
    /\ dryRun
    /\ uploaded >= 1
    /\ deleted >= 1
    /\ remote # <<>>

\* C3: a real pass in which no call fails, run right after a dry-run pass
\* of the same tree and store, reports the uploaded and deleted counts the
\* dry run reported.
C3_DryPlanEqualsRealPlan ==
    (Returned /\ ~dryRun /\ prev.kind = "dry" /\ failedCalls = {}) =>
        (uploaded = prev.uploaded /\ deleted = prev.deleted)

C6_UploadSet ==
    /\ \A c \in upCalls : c[1] \in repoFiles /\ NewOrChanged(c[1])
    /\ \A f \in uploadedIds : f \in repoFiles /\ NewOrChanged(f)
    /\ (AllSettled /\ ~dryRun) =>
           \A f \in repoFiles :
               (NewOrChanged(f) /\ files[f] # NoFile /\ files[f] # Empty)
                   => <<f, "stream">> \in upCalls
    /\ (AllSettled /\ dryRun) =>
           uploaded = Cardinality({f \in repoFiles :
                                      files[f] # NoFile /\ NewOrChanged(f)})

\* One new file next to a synced one: the dry run reports 1
C6_Witness ==
    /\ Returned
    /\ dryRun
    /\ FileK \in DOMAIN storeHashes
    /\ ~NewOrChanged(FileK)
    /\ FileO \in repoFiles
    /\ FileO \notin DOMAIN storeHashes
    /\ uploaded = 1

\* C7: when the items of a real pass have settled and no delete has failed,
\* the identifiers deleted and counted, once each, are the remote
\* identifiers under the root that have no in-scope local file, and they are
\* gone from the store; with one such identifier and every in-scope file
\* matching its remote hash the pass reports deleted = 1 and uploaded = 0.
C7_DeleteSet ==
    (~dryRun /\ AllSettled /\ \A c \in failedCalls : c[2] # "store.deleteFile") =>
        /\ deletedIds = [id \in ToDeleteRef |-> 1]
        /\ delCalls = [id \in ToDeleteRef |-> 1]
        /\ deleted = Cardinality(ToDeleteRef)
        /\ \A id \in ToDeleteRef : id \notin DOMAIN remote
        /\ (Cardinality(ToDeleteRef) = 1 /\ \A f \in repoFiles : ~NewOrChanged(f))
               => (deleted = 1 /\ uploaded = 0)

\* C4: at no point of a pass are more than concurrency (100) upload and
\* delete tasks running; the two kinds are counted against the one ceiling.
C4_BoundedConcurrency == activeCount[1] + activeCount[2] <= concurrency

\* The ceiling is reached by uploads and deletes together, with items waiting
C4_Witness ==
    /\ activeCount[1] + activeCount[2] = concurrency
    /\ activeCount[1] > 0
    /\ activeCount[2] > 0
    /\ limitQueue[1] + limitQueue[2] > 0

\* ------------------------------------------------------------------------
\* Failures, the join and the counters of a pass
\* ------------------------------------------------------------------------

\* The items of the pass with a call that threw
FailedItems == {p \in DOMAIN task : \E c \in failedCalls : c[1] = p}

\* The listing of the pass threw
ListingFailed == \E c \in failedCalls : c[2] = "store.listFiles"

\* C12: no failure of an item (a readFile, a store upload or a store delete
\* that throws) rejects a task or the pass: initialSync rejects only when the
\* listing threw; and when it resolves every scheduled item has been
\* attempted: each task has run to its end and reported progress once, in a
\* real pass every identifier to delete was handed to store.deleteFile and
\* every new-or-changed file still on disk with bytes to store.uploadFile.
C12_FailuresDoNotAbort ==
    /\ \A p \in DOMAIN task : task[p] # "rejected"
    /\ result.kind = "rejected" => result.error = "store.listFiles"
    /\ result.kind = "resolved" =>
           /\ DOMAIN task = repoFiles \cup filesToDelete
           /\ \A p \in DOMAIN task : task[p] = "done"
           /\ progress.calls = Cardinality(repoFiles) + Cardinality(filesToDelete)
           /\ ~dryRun =>
                  /\ \A id \in filesToDelete : id \in DOMAIN delCalls
                  /\ \A f \in repoFiles :
                         (files[f] # NoFile /\ files[f] # Empty /\ NewOrChanged(f))
                             => <<f, "stream">> \in upCalls

\* A read, a delete and an upload have failed in passes that resolved, and
\* the last one has uploaded another file
C12_Witness ==
    /\ result.kind = "resolved"
    /\ ~dryRun
    /\ fails = MaxFails
    /\ FailedItems # {}
    /\ \E f \in uploadedIds : f \notin FailedItems

\* C13: when a pass resolves after items have failed, the returned result
\* has an errors value and it is the number of failed items.
C13_ErrorsCounted ==
    (result.kind = "resolved" /\ FailedItems # {}) =>
        /\ "errors" \in DOMAIN result.value
        /\ result.value.errors = Cardinality(FailedItems)

\* C14: when the listing of the store throws, at the first or at a later
\* page, initialSync rejects with that error and the pass has made no store
\* upload, no store delete and no progress callback, and has no task.
C14_SnapshotFailureFatal ==
    ListingFailed =>
        /\ phase = "rejected"
        /\ result = Rejected("store.listFiles")
        /\ task = <<>>
        /\ upCalls = {}
        /\ delCalls = <<>>
        /\ uploaded = 0
        /\ deleted = 0
        /\ progress.calls = 0

\* The third page of a store of five records threw, with files to upload
\* and identifiers to delete
C14_Witness ==
    /\ \E c \in failedCalls : c[2] = "store.listFiles" /\ c[3] = 3
    /\ phase = "rejected"
    /\ FileA \in DOMAIN remote
    /\ files[FileK] = <<"x">>

\* C15: once a store upload of the pass has been rejected with a quota
\* response, no further store call is made and the pass does not resolve.
C15_QuotaStops ==
    quotaAt.hit =>
        /\ upCalls = quotaAt.upCalls
        /\ result.kind # "resolved"

\* C16: when initialSync has resolved, every task it scheduled has settled,
\* whatever the order in which they completed, and the value it returned
\* holds the counters as they are.
C16_JoinBarrier ==
    result.kind = "resolved" =>
        /\ \A p \in repoFiles \cup filesToDelete : p \in DOMAIN task /\ task[p] = "done"
        /\ result.value = SyncResult(processed, uploaded, deleted, total)
        /\ \A c \in upCalls : c[1] \in uploadedIds \cup FailedItems

\* Two uploads and a delete have completed and a call was rejected
C16_Witness ==
    /\ result.kind = "resolved"
    /\ ~dryRun
    /\ result.value.uploaded >= 1
    /\ result.value.deleted >= 1
    /\ result.value.processed >= 3
    /\ failedCalls # {}

\* C17: from one progress callback of a pass to the next, processed,
\* uploaded, deleted and errors do not decrease and total stays the same,
\* and the value a pass has returned does not change.
C17_CountersMonotone ==
    [][/\ (phase = "running" /\ progress.calls > 0 /\ progress'.calls > progress.calls) =>
              /\ "errors" \in DOMAIN progress'.info
              /\ progress'.info.errors >= progress.info.errors
              /\ progress'.info.processed >= progress.info.processed
              /\ progress'.info.uploaded >= progress.info.uploaded
              /\ progress'.info.deleted >= progress.info.deleted
              /\ progress'.info.total = progress.info.total
       /\ (result.kind = "resolved" /\ result'.kind = "resolved") => result' = result]_vars

\* The files on disk in scope that are new or changed against the snapshot
ToUploadRef == {f \in InScope : NewOrChanged(f)}

\* C18 as stated: total is the number of new-or-changed in-scope files plus
\* the number of identifiers to delete.
C18_TotalOfPlan ==
    (phase = "running" /\ edits = 0) =>
        total = Cardinality(ToUploadRef) + Cardinality(ToDeleteRef)

\* C18: total is the number of in-scope local files, changed or not, plus
\* the number of identifiers to delete, in progress callbacks and in the
\* returned value.
C18_Total ==
    /\ (phase = "running" /\ edits = 0) =>
           total = Cardinality(InScope) + Cardinality(ToDeleteRef)
    /\ (phase = "running" /\ progress.calls > 0) => progress.info.total = total
    /\ result.kind = "resolved" => result.value.total = total

\* Two files in sync and one identifier to delete: total is 3
C18_Witness ==
    /\ result.kind = "resolved"
    /\ edits = 0
    /\ Cardinality(ToUploadRef) = 0
    /\ Cardinality(ToDeleteRef) = 1
    /\ result.value.total = 3

\* ------------------------------------------------------------------------
\* The watch session
\* ------------------------------------------------------------------------

\* The callback of fs.watch has run, or an operation it started exists
LiveActivity == handled > 0 \/ notified # {} \/ live # {} \/ liveCalls # {}

\* C19: startWatch subscribes with fs.watch only after createStore, the
\* retrieve or create of the store and one initialSync pass have completed
\* without throwing; no notification is handled before that pass has
\* returned; and when one of them has thrown there is no subscription, no
\* notification was handled and the exit code is 1.
C19_WatchAfterBaseline ==
    /\ watchers > 0 =>
           /\ pc = "watching"
           /\ result.kind = "resolved"
           /\ phase = "idle"
           /\ \A p \in DOMAIN task : task[p] = "done"
    /\ LiveActivity => watchers > 0
    /\ (result.kind = "rejected" /\ pc # "initialSync") => pc = "failed"
    /\ pc = "failed" =>
           /\ watchers = 0
           /\ exitCode = 1
           /\ ~LiveActivity
    /\ pc \in {"none", "createStore", "store.retrieve", "store.create", "initialSync"} =>
           watchers = 0

\* The session watches after a pass that resolved, and a change of k.t
\* made afterwards has been handed to uploadFile
C19_Witness ==
    /\ pc = "watching"
    /\ watchers = 1
    /\ result.kind = "resolved"
    /\ handled > 0
    /\ <<FileK, "stream">> \in liveCalls

\* C20: a session started with dryRun true never subscribes with fs.watch:
\* when its pass has resolved it returns after the summary, and the session
\* makes no store upload and no store delete, neither in the pass nor from
\* a notification.
C20_DryRunNeverWatches ==
    watchDry =>
        /\ watchers = 0
        /\ pc # "watching"
        /\ ~LiveActivity
        /\ upCalls = {}
        /\ delCalls = <<>>
        /\ (result.kind = "resolved" /\ pc # "initialSync") => pc = "returned"

\* A dry-run session has returned after a pass that would have uploaded a
\* file, and the tree was changed while it ran
C20_Witness ==
    /\ watchDry
    /\ pc = "returned"
    /\ result.kind = "resolved"
    /\ result.value.uploaded >= 1
    /\ edits > 0

\* C21: the callback sends store.deleteFile for a path that is gone only
\* when the store holds a record of that path at that moment.
C21_DeleteOnlyTracked ==
    [][\A c \in liveCalls' \ liveCalls :
           c[2] = "store.deleteFile" => c[1] \in DOMAIN remote]_vars

\* The paths the callback has started an upload or a delete for
LivePaths == {o.filePath : o \in live} \cup {c[1] : c \in liveCalls}

\* C22: no operation of the callback, upload or delete, in flight or done,
\* is for a path that isIgnored ignores: hidden, matched by the global
\* patterns, or ignored by the rule set of a directory; on disk or not.
C22_WatchRespectsIgnores ==
    \A p \in LivePaths : ~isIgnored(<<>>, ignoreFile, p, Root)

\* Notifications for a hidden file that exists and for a removed file that
\* the .mgrepignore of its directory ignores have been handled, and nothing
\* was started
C22_Witness ==
    /\ pc = "watching"
    /\ handled >= 2
    /\ notified = {}
    /\ files[FileH] # NoFile
    /\ files[FileO] = NoFile
    /\ isIgnored(<<>>, ignoreFile, FileO, Root)
    /\ LivePaths = {}

\* ------------------------------------------------------------------------
\* Empty files, the upload fallback and the snapshot map
\* ------------------------------------------------------------------------

\* C26: when the task of a file of zero bytes has ended, no store upload
\* was requested for the file, it is not counted in uploaded and no call
\* for it has failed, in a real pass and in a dry run.
C26_EmptySkipped ==
    \A f \in DOMAIN task :
        (f \in repoFiles /\ task[f] = "done" /\ files[f] = Empty) =>
            /\ \A c \in upCalls : c[1] # f
            /\ f \notin uploadedIds
            /\ \A c \in failedCalls : c[1] # f

\* C27: a text upload of a file is requested only after the stream upload
\* of that file was rejected, and only for a file isText detects as text;
\* a file that is not text and whose stream upload was rejected gets no
\* further store call in the pass, is not counted in uploaded, and the
\* result of the pass counts it in errors.
C27_UploadFallback ==
    /\ \A c \in upCalls :
           c[2] = "text" =>
               /\ <<c[1], "stream">> \in upCalls
               /\ <<c[1], "store.uploadFile">> \in failedCalls
               /\ isText(c[1])
    /\ \A f \in repoFiles :
           (~isText(f) /\ <<f, "store.uploadFile">> \in failedCalls) =>
               /\ task[f] = "done"
               /\ f \notin uploadedIds
               /\ <<f, "text">> \notin upCalls
               /\ result.kind = "resolved" =>
                      /\ "errors" \in DOMAIN result.value
                      /\ result.value.errors >= 1

\* C29: a lookup made after the ignore file of a directory was written or
\* removed answers from rule sets rebuilt from the current content of the
\* ignore files, and a directory cached while it has no ignore file is
\* cached as an empty rule set.
C29_CacheInvalidation ==
    [][ignoreFile' = ignoreFile =>
           /\ verdict' = isIgnored(<<>>, ignoreFile', query', Root)
           /\ \A d \in (DOMAIN ignoreCache') \ (DOMAIN ignoreCache) :
                  (\A sl \in IgnoreSlots : sl[1] = d => ignoreFile[sl] = NoIgnore)
                      => ignoreCache'[d] = <<>>]_vars

\* The positions in the records received so far that carry the identifier id
SeenAt(id) == {i \in 1..Len(seen) : seen[i].external_id = id}

\* C28: the map built from the listing has exactly the external identifiers
\* of the records received so far as its keys, one entry each; the hash of
\* an identifier is the hash of the last record received with it; a record
\* without an external identifier adds no key.
C28_SnapshotUniqueKeys ==
    /\ DOMAIN snapshotMap =
           {seen[i].external_id : i \in 1..Len(seen)} \ {Undefined}
    /\ \A id \in DOMAIN snapshotMap :
           \E last \in SeenAt(id) :
               /\ \A i \in SeenAt(id) : i <= last
               /\ snapshotMap[id] = seen[last].metadata.hash

\* The listing has ended after a record without an identifier and two
\* records of one identifier with different hashes
C28_Witness ==
    /\ pending = <<>>
    /\ \E i \in 1..Len(seen) : seen[i].external_id = Undefined
    /\ \E i, j \in SeenAt(FileK) :
           i < j /\ seen[i].metadata.hash # seen[j].metadata.hash

\* ------------------------------------------------------------------------
\* The mutex of TestStore
\* ------------------------------------------------------------------------

\* The requests inside the load-modify-save of synchronized
InCritical == {r \in DOMAIN req : req[r].at \in {"load", "save"}}

\* C24: at most one request is between the start of its load and the end
\* of its save at any time, and the backing file holds the record of every
\* uploadFile that has completed and the name of a create that has.
C24_MutualExclusion ==
    /\ Cardinality(InCritical) <= 1
    /\ \A r \in DOMAIN req :
           req[r].at = "done" =>
               IF OpOf(r) = "create" THEN backing.name = "mgrep"
               ELSE r \in backing.files

\* All the requests have completed and the file holds every record
C24_Witness ==
    /\ DOMAIN req = Requests
    /\ \A r \in Requests : req[r].at = "done"
    /\ backing.files = {r \in Requests : OpOf(r) = "uploadFile"}

\* C25: of two requests that have entered synchronized, the one that
\* entered later starts its critical section only after the one that
\* entered earlier has finished its own and released.
C25_LockOrder ==
    \A a \in Invoked : \A b \in Invoked :
        (req[a].newLock < req[b].newLock
            /\ req[b].at \in {"load", "save", "done", "rejected"})
        => req[a].at \in {"done", "rejected"}

\* An uploadFile entered synchronized before the create that was called
\* first: the create is in its critical section after the upload's
C25_Witness ==
    \E a \in Invoked : \E b \in Invoked :
        /\ OpOf(a) = "uploadFile"
        /\ OpOf(b) = "create"
        /\ req[a].newLock < req[b].newLock
        /\ req[a].at = "done"
        /\ req[b].at = "load"

\* A file the pass could not read is skipped: its task has ended, nothing
\* was uploaded or counted for it, and the pass is not rejected for it
PassSkipsVanished ==
    /\ \A f \in DOMAIN task :
           (<<f, "readFile">> \in failedCalls /\ files[f] = NoFile) =>
               /\ task[f] = "done"
               /\ f \notin uploadedIds
               /\ \A c \in upCalls : c[1] # f
    /\ result.kind = "rejected" => result.error = "store.listFiles"

\* C23: a rejected delete of a path that has no record, and an upload of a
\* path that is gone when it is read, leave the session watching with its
\* subscription and exit code as they were; and in a pass a file that
\* vanished before its read is skipped and the pass goes on.
C23_RaceTolerance ==
    [][/\ pc = "watching" =>
              /\ pc' = "watching"
              /\ watchers' = watchers
              /\ exitCode' = exitCode
       /\ PassSkipsVanished
       /\ PassSkipsVanished']_vars

\* The session watches after the read of a removed file was rejected and
\* after a delete was sent and has settled for s/k.t, which neither the
\* pass nor the callback has ever uploaded
C23_Witness ==
    /\ pc = "watching"
    /\ live = {}
    /\ <<FileK, "readFile">> \in liveLogged
    /\ <<FileK, "store.deleteFile">> \in liveCalls
    /\ FileK \notin uploadedIds
    /\ <<FileK, "stream">> \notin liveCalls

\* ------------------------------------------------------------------------
\* Properties of the ignore rules
\* ------------------------------------------------------------------------

\* The ignore files of the root hold the one pattern *.t and those of the
\* subdirectory the one pattern !k.t
NegationCase ==
    /\ LoadDirectoryIgnoreFilter(ignoreFile, Root) = AddPatterns(<<>>, <<StarT>>)
    /\ LoadDirectoryIgnoreFilter(ignoreFile, SubDir) = AddPatterns(<<>>, <<NotK>>)

\* A real pass over the tree with both files on disk has returned without
\* a failure
SyncedBoth ==
    /\ Returned
    /\ ~dryRun
    /\ failedCalls = {}
    /\ files[FileK] # NoFile
    /\ files[FileO] # NoFile

\* C8 as stated: with *.t at the root and !k.t in the subdirectory, isIgnored
\* is false for s/k.t and true for s/o.t, and a sync uploads s/k.t and does
\* not upload s/o.t.
C8_NegationAlways ==
    NegationCase =>
        /\ ~isIgnored(<<>>, ignoreFile, FileK, Root)
        /\ isIgnored(<<>>, ignoreFile, FileO, Root)
        /\ \A c \in upCalls : c[1] # FileO
        /\ FileO \notin DOMAIN remote
        /\ SyncedBoth => FileK \in DOMAIN remote

\* C8: with *.t at the root and !k.t in the subdirectory, isIgnored is false
\* for s/k.t and true for s/o.t and a sync never uploads s/o.t; it uploads
\* s/k.t when the walker lists it: outside a git work tree always, inside
\* one when s/k.t is tracked or git's own .gitignore files do not exclude it.
C8_Negation ==
    NegationCase =>
        /\ ~isIgnored(<<>>, ignoreFile, FileK, Root)
        /\ isIgnored(<<>>, ignoreFile, FileO, Root)
        /\ \A c \in upCalls : c[1] # FileO
        /\ FileO \notin DOMAIN remote
        /\ (SyncedBoth /\ (~isGit \/ FileK \in tracked \/ ~GitExcluded(ignoreFile, FileK)))
               => FileK \in DOMAIN remote

C8_Witness ==
    /\ NegationCase
    /\ SyncedBoth
    /\ <<FileK, "stream">> \in upCalls
    /\ FileK \in DOMAIN remote
    /\ FileO \notin DOMAIN remote

\* Some segment of p below the root starts with "."
SegHidden(p) ==
    \E i \in (Len(Parts(Root)) + 1)..Len(Parts(p)) : Head(Parts(p)[i]) = "."

\* C9: whatever the ignore files hold, isIgnored is true for every path
\* with a segment below the root that starts with ".", and no such file is
\* in scope, handed to store.uploadFile, counted as uploaded or in the store.
C9_HiddenAbsolute ==
    /\ \A p \in LocalFiles \cup Directories :
           SegHidden(p) => isIgnored(<<>>, ignoreFile, p, Root)
    /\ \A f \in repoFiles \cup uploadedIds \cup DOMAIN remote : ~SegHidden(f)
    /\ \A c \in upCalls : ~SegHidden(c[1])

\* A tracked hidden k.t under git, a root .mgrepignore that un-ignores k.t,
\* and a real pass that has uploaded other files
C9_Witness ==
    /\ Returned
    /\ ~dryRun
    /\ isGit
    /\ FileH \in tracked
    /\ files[FileH] # NoFile
    /\ ignoreFile[<<Root, MgrepIgnoreName>>] = <<NotK>>
    /\ uploaded >= 1
    /\ FileH \notin DOMAIN remote

\* The directories from the containing directory of p up to the root
Above(p) ==
    {d \in Directories : StrictlyUnder(d, p) /\ (d = Root \/ StrictlyUnder(Root, d))}

\* What the rule set of directory d says about p, named relative to d
VerdictAt(d, p) ==
    LET rel == Join(SubSeq(Parts(p), Len(Parts(d)) + 1, Len(Parts(p))))
    IN  FilterTest(getDirectoryIgnoreFilter(ignoreCache, ignoreFile, d),
                   IF IsDirectory(p) THEN rel \o <<Sep>> ELSE rel)

Decisive(p) == {d \in Above(p) : VerdictAt(d, p).ignored \/ VerdictAt(d, p).unignored}

\* The verdict of the deepest decisive directory; not ignored without one
ClosestVerdict(p) ==
    IF Decisive(p) = {} THEN FALSE
    ELSE LET d == CHOOSE d \in Decisive(p) : \A e \in Decisive(p) : Len(e) <= Len(d)
         IN  VerdictAt(d, p).ignored

\* C10: for a path that is neither hidden nor ignored by the global
\* patterns, isIgnored returns the verdict of the closest directory, from
\* the containing directory up to the root, whose rule set ignores or
\* un-ignores the path; a silent rule set defers to the parent, with no
\* verdict the path is not ignored, and the ignore files of a subdirectory
\* say nothing about a file of its parent.
C10_ClosestWins ==
    (/\ query # NoQuery
     /\ ~SegHidden(query)
     /\ ~FilterIgnores(customIgnoreFilter, Relative(Root, query))) =>
        /\ verdict = ClosestVerdict(query)
        /\ query = FileA => verdict = VerdictAt(Root, FileA).ignored

\* The root un-ignores k.t, the subdirectory ignores *.t: s/k.t is ignored
C10_Witness ==
    /\ query = FileK
    /\ ignoreFile[<<Root, MgrepIgnoreName>>] = <<NotK>>
    /\ ignoreFile[<<Root, GitIgnoreName>>] = NoIgnore
    /\ ignoreFile[<<SubDir, GitIgnoreName>>] = <<StarT>>
    /\ ignoreFile[<<SubDir, MgrepIgnoreName>>] = NoIgnore
    /\ verdict = TRUE

\* What customIgnoreFilter.ignores says about p, named relative to the root
GlobalIgnores(p) ==
    FilterIgnores(customIgnoreFilter,
                  IF IsDirectory(p) THEN Relative(Root, p) \o <<Sep>>
                  ELSE Relative(Root, p))

\* C11: when the global pattern set (the patterns handed to the constructor,
\* here the default extensions) ignores a path relative to the root,
\* isIgnored returns true for it, whatever negation patterns the ignore
\* files of the root and of the subdirectory hold.
C11_GlobalNotOverridable ==
    (query # NoQuery /\ GlobalIgnores(query)) => verdict = TRUE

\* s/k.b with !k.b in the .mgrepignore of the root and of the subdirectory
C11_Witness ==
    /\ query = FileB
    /\ ignoreFile[<<Root, MgrepIgnoreName>>] = <<NotB>>
    /\ ignoreFile[<<SubDir, MgrepIgnoreName>>] = <<NotB>>
    /\ FilterTest(LoadDirectoryIgnoreFilter(ignoreFile, SubDir), <<"k", ".", "b">>).unignored
    /\ verdict = TRUE

\* ------------------------------------------------------------------------
\* The two ignore files of one directory
\* ------------------------------------------------------------------------

\* The .gitignore and the .mgrepignore of the subdirectory
SubGit   == ignoreFile[<<SubDir, GitIgnoreName>>]
SubMgrep == ignoreFile[<<SubDir, MgrepIgnoreName>>]

\* The data files of the subdirectory were never uploaded
SubNeverUploaded ==
    /\ \A c \in upCalls : c[1] \notin {FileK, FileO}
    /\ FileK \notin DOMAIN remote
    /\ FileO \notin DOMAIN remote

PrunedDirs == {d \in Directories \ {Root} : isIgnored(<<>>, ignoreFile, d, Root)}

\* C31: outside version control, while a pass that has listed the tree runs, no rule
\* set was loaded for a directory isIgnored rejects (its entries were never
\* read and tested) and no listed file lies inside such a directory.
C31_WalkerPrunes ==
    (phase = "running" /\ ~isGit) =>
        \A d \in PrunedDirs :
            /\ d \notin DOMAIN ignoreCache
            /\ \A f \in repoFiles : ~StartsWith(f, d \o <<Sep>>)

\* A pass has listed a tree whose root ignores the directory s while the
\* ignore file of s re-includes s/k.t, which isIgnored alone would accept
C31_Witness ==
    /\ phase = "running"
    /\ ~isGit
    /\ SubDir \in PrunedDirs
    /\ HidDir \in PrunedDirs
    /\ files[FileK] # NoFile
    /\ ~isIgnored(<<>>, ignoreFile, FileK, Root)
    /\ FileK \notin repoFiles

\* C32: when a pass lists the tree, under version control or not, every
\* path getFiles yields, and so every path among the files of the pass, is
\* at that moment an existing regular file and not a directory.
C32_OnlyRegularFiles ==
    [][(phase = "idle" /\ phase' = "running") =>
           /\ \A f \in getFiles(files, ignoreFile, isGit, tracked, Root) :
                  files[f] # NoFile /\ ~IsDirectory(f)
           /\ \A f \in repoFiles' : files[f] # NoFile /\ ~IsDirectory(f)]_vars

\* The number of outcomes of event e the summary lines printed so far report
RECURSIVE Reported(_, _)
Reported(lines, e) ==
    IF lines = <<>> THEN 0 ELSE Head(lines)[e] + Reported(Tail(lines), e)

\* C33: in non-verbose mode every recorded outcome is either in the rolling
\* counts or in exactly one printed summary; at most one timer is pending,
\* and one is pending exactly while a count is not zero; the pending timer
\* is due 500 ms after the first outcome recorded since the last flush and
\* runs then; without a pending timer all counts are zero.
C33_DebouncedSummary ==
    ~verbose =>
        /\ \A e \in Events : recorded[e] = pendingCounts[e] + Reported(summaries, e)
        /\ Cardinality(timers) <= 1
        /\ timers = IF flushTimer.set THEN {flushTimer.due} ELSE {}
        /\ flushTimer.set <=> pendingCounts # NoCounts
        /\ flushTimer.set =>
               /\ firstAt.set
               /\ flushTimer.due = firstAt.due + FlushDelay
               /\ clock <= flushTimer.due
        /\ \A i \in 1..Len(summaries) : summaries[i] # NoCounts

\* Two summaries were printed, the first for two outcomes recorded at
\* different times, and nothing is pending
C33_Witness ==
    /\ ~verbose
    /\ Len(summaries) = 2
    /\ summaries[1]["add"] + summaries[1]["change"] + summaries[1]["unlink"] = 2
    /\ summaries[1]["unlink"] = 1
    /\ pendingCounts = NoCounts
    /\ timers = {}
    /\ ~flushTimer.set

\* C34: the live pipeline sends a stream upload for a file only when the
\* store has no record of the path or the hash of the record differs from
\* the hash of the bytes uploadFile has read.
C34_WatchComparesHashes ==
    [][\A o \in live' :
           (o.at = "store.uploadFile" /\ <<o.filePath, "stream">> \notin liveCalls) =>
               \/ o.filePath \notin DOMAIN remote
               \/ remote[o.filePath].hash # computeBufferHash(o.buffer)]_vars

\* C35: no upload request and no delete request is sent to the store for
\* the path of a directory, existing or just removed.
C35_DirectoriesFiltered ==
    [][\A c \in liveCalls' \ liveCalls : c[1] \notin Directories \cup {GoneDir}]_vars

\* C36: the counters in every progress callback and in the returned result
\* satisfy uploaded + deleted <= processed <= total, whatever the order in
\* which the items complete or fail, and onProgress has been called once
\* for every item that has settled: total times when the pass returns.
C36_CounterInvariant ==
    /\ (phase = "running" /\ progress.calls > 0) =>
           /\ progress.info.uploaded + progress.info.deleted <= progress.info.processed
           /\ progress.info.processed <= progress.info.total
           /\ progress.info.total = total
    /\ phase = "running" =>
           /\ uploaded + deleted <= processed
           /\ processed <= total
           /\ progress.calls = Cardinality({p \in DOMAIN task : task[p] = "done"})
    /\ result.kind = "resolved" =>
           /\ result.value.uploaded + result.value.deleted <= result.value.processed
           /\ result.value.processed <= result.value.total
           /\ progress.calls = result.value.total

\* A pass has resolved after an upload, a delete and a failed item, with
\* fewer items processed than scheduled
C36_Witness ==
    /\ result.kind = "resolved"
    /\ result.value.uploaded >= 1
    /\ result.value.deleted >= 1
    /\ failedCalls # {}
    /\ result.value.processed < result.value.total
    /\ progress.calls = result.value.total

\* C37: when a real pass has resolved with no call failed and no file
\* changed, the store holds for every in-scope file that has bytes a record
\* with the hash of its content, and no record under the root for any other
\* path, a file that has become empty since it was stored included.
C37_Convergence ==
    (result.kind = "resolved" /\ ~dryRun /\ failedCalls = {} /\ edits = 0) =>
        /\ \A f \in InScope :
               files[f] # Empty =>
                   /\ f \in DOMAIN remote
                   /\ remote[f].hash = computeBufferHash(files[f])
        /\ \A id \in DOMAIN remote :
               StrictlyUnder(Root, id) => (id \in InScope /\ files[id] # Empty)

\* C38: the hash in the metadata of every record of the store is the hash
\* of the bytes stored as the content of that record, also when the file
\* was written between the read that gave the hash and the upload.
C38_HashMatchesContent ==
    \A id \in DOMAIN remote : remote[id].hash = computeBufferHash(remote[id].content)

\* C39: with requests succeeding and failing in any order, a request that
\* waits for the lock eventually enters its critical section, and a request
\* is rejected only by the failure of its own critical section.
C39_LockReleasedOnFailure ==
    /\ \A r \in Requests :
           (r \in DOMAIN req /\ req[r].at = "previousLock")
               ~> (r \in DOMAIN req /\ req[r].at \in {"load", "save", "done", "rejected"})
    /\ [][\A r \in DOMAIN req :
             (req'[r].at = "rejected" /\ req[r].at # "rejected") =>
                 /\ req[r].at = "save"
                 /\ \A q \in (DOMAIN req) \ {r} : req'[q] = req[q]]_vars

\* A request was rejected and a request queued after it is in its critical
\* section or has completed
C39_Witness ==
    \E a \in Invoked : \E b \in Invoked :
        /\ req[a].at = "rejected"
        /\ req[a].newLock < req[b].newLock
        /\ req[b].at \in {"load", "save", "done"}

\* C40: when s/k.t was written and then removed while the session watches,
\* and the upload and the delete the callback started for it have settled
\* with no store call rejected, the store holds no record of s/k.t, in
\* whatever order the two completed.
C40_AddThenDeleteConverges ==
    (/\ pc = "watching"
     /\ live = {}
     /\ notified = {}
     /\ files[FileK] = NoFile
     /\ <<FileK, "stream">> \in liveCalls
     /\ <<FileK, "store.deleteFile">> \in liveCalls
     /\ <<FileK, "store.deleteFile">> \notin liveLogged
     /\ <<FileK, "store.uploadFile">> \notin liveLogged)
        => FileK \notin DOMAIN remote

====
